---- MODULE Spec2Model ----
(***************************************************************************)
(* Model of the WordLift knowledge-graph sync subsystem:                   *)
(*   - identifier generation        (scripts/id_generator.py)              *)
(*   - entity building              (wl_extension/entity_builder.py)       *)
(*   - structural validation        (wl_extension/shacl_validator.py)      *)
(*   - the sync orchestrator        (wl_extension/kg_sync.py)              *)
(*   - the entity reuse manager     (wl_extension/entity_reuse.py)         *)
(*                                                                         *)
(* Text is modelled as a sequence of characters.  A trade code is a        *)
(* sequence over 0..10, where 0..9 are the digits and 10 stands for any    *)
(* non-digit character (a hyphen, a blank).  A URI is the tuple of its     *)
(* path segments under the dataset base URI.                               *)
(***************************************************************************)
EXTENDS Integers, Sequences, FiniteSets, TLC

(***************************************************************************)
(* Bounds of the model.                                                    *)
(***************************************************************************)
MaxLen == 2          \* longest input list of a sync run
MaxBatch == 2        \* largest batch_size
MaxDigits == 15       \* longest trade code given to normalize_gtin
MaxSeed == 1          \* digit patterns of the trade codes: 0..MaxSeed
MaxText == 4          \* longest text given to generate_slug
MaxCalls == 2        \* get_or_create calls of one Reuse Manager lifetime

(***************************************************************************)
(* Generic helpers.                                                        *)
(***************************************************************************)
Range(s) == {s[i] : i \in 1..Len(s)}

Min(a, b) == IF a < b THEN a ELSE b

\* s[from:to] of Python (0-based, end exclusive, clipped to the length)
Slice(s, from, to) == SubSeq(s, from + 1, Min(to, Len(s)))

RECURSIVE Flatten(_)
Flatten(ss) == IF ss = <<>> THEN <<>> ELSE Head(ss) \o Flatten(Tail(ss))

Has(f, k) == k \in DOMAIN f

\* a mapping with one more (or one overwritten) key, d[k] = v of Python
Put(d, k, v) == [x \in (DOMAIN d) \cup {k} |-> IF x = k THEN v ELSE d[x]]

\* the empty mapping {}
EmptyMap == [x \in {} |-> <<>>]

(***************************************************************************)
(* Identifier Generator                                                    *)
(***************************************************************************)
DATASET_URI == "https://example.com"

IsDigit(c) == c \in 0..9

\* re.sub(r'\D', '', gtin)
StripNonDigits(gtin) == SelectSeq(gtin, IsDigit)

\* str.zfill(14)
zfill14(s) ==
    IF Len(s) >= 14 THEN s
    ELSE [i \in 1..14 |-> IF i <= 14 - Len(s) THEN 0 ELSE s[i - (14 - Len(s))]]

\* the weighted sum with the weights 1 and 3 exchanged
RECURSIVE WeightedSum_Swapped(_, _)
WeightedSum_Swapped(digits, i) ==
    IF i >= Len(digits) THEN 0
    ELSE digits[Len(digits) - i] * (IF i % 2 = 0 THEN 1 ELSE 3)
         + WeightedSum_Swapped(digits, i + 1)

\* sum(d * (3 if i % 2 == 0 else 1) for i, d in enumerate(reversed(digits)))
RECURSIVE WeightedSum(_, _)
WeightedSum(digits, i) ==
    IF i >= Len(digits) THEN 0
    ELSE digits[Len(digits) - i] * (IF i % 2 = 0 THEN 3 ELSE 1)
         + WeightedSum(digits, i + 1)

validate_gtin_check_digit(gtin) ==
    IF Len(gtin) # 14 THEN FALSE
    ELSE LET digits == SubSeq(gtin, 1, 13)
             total == WeightedSum(digits, 0)
             calculated_check == (10 - (total % 10)) % 10
             actual_check == gtin[14]
         IN calculated_check = actual_check

\* result of a call that may raise: [ok |-> TRUE, val |-> v] or
\* [ok |-> FALSE, err |-> e]
Ok(v) == [ok |-> TRUE, val |-> v]
Raise(e) == [ok |-> FALSE, err |-> e]

\* normalize_gtin with the check digit tested before the length
normalize_gtin_ChecksumFirst(gtin) ==
    LET g == StripNonDigits(gtin)
        gtin_14 == zfill14(g)
    IN IF ~validate_gtin_check_digit(gtin_14) THEN Raise("InvalidCheckDigit")
       ELSE IF Len(g) \notin {8, 12, 13, 14} THEN Raise("InvalidLength")
       ELSE Ok(gtin_14)

normalize_gtin(gtin) ==
    LET g == StripNonDigits(gtin)
        gtin_14 == zfill14(g)
    IN IF Len(g) \notin {8, 12, 13, 14} THEN Raise("InvalidLength")
       ELSE IF ~validate_gtin_check_digit(gtin_14) THEN Raise("InvalidCheckDigit")
       ELSE Ok(gtin_14)

\* A URI is the sequence of its parts between slashes, so that joining two
\* texts with "/" is concatenation and a trailing slash is a trailing empty
\* part: "https://example.com/" is <<"https://example.com", "">>.
\* str.rstrip('/')
RECURSIVE rstrip_slash(_)
rstrip_slash(uri) ==
    IF uri # <<>> /\ uri[Len(uri)] = "" THEN rstrip_slash(SubSeq(uri, 1, Len(uri) - 1))
    ELSE uri

\* generate_product_id without the rstrip of the base URI
generate_product_id_NoStrip(dataset_uri, gtin, serial, lot) ==
    LET n == normalize_gtin(gtin)
    IN IF ~n.ok THEN n
       ELSE Ok(dataset_uri \o <<"01", n.val>>
               \o (IF serial # <<>> THEN <<"21", serial>> ELSE <<>>)
               \o (IF lot # <<>> THEN <<"10", lot>> ELSE <<>>))

\* f"{dataset_uri}/01/{gtin_14}", then "/21/{serial}" and "/10/{lot}" for a
\* serial and a lot that are neither None nor empty (both are <<>> here)
generate_product_id(dataset_uri, gtin, serial, lot) ==
    LET base == rstrip_slash(dataset_uri)
        n == normalize_gtin(gtin)
    IN IF ~n.ok THEN n
       ELSE Ok(base \o <<"01", n.val>>
               \o (IF serial # <<>> THEN <<"21", serial>> ELSE <<>>)
               \o (IF lot # <<>> THEN <<"10", lot>> ELSE <<>>))

Lower(c) == IF c = "A" THEN "a" ELSE IF c = "B" THEN "b" ELSE c

\* re.sub(r'[\s_]+', '-', slug): a run of blanks and underscores becomes one hyphen
RECURSIVE ReplaceBlankRuns(_)
ReplaceBlankRuns(s) ==
    IF s = <<>> THEN <<>>
    ELSE IF Head(s) \in {" ", "_"}
         THEN IF Len(s) > 1 /\ s[2] \in {" ", "_"}
              THEN ReplaceBlankRuns(Tail(s))
              ELSE <<"-">> \o ReplaceBlankRuns(Tail(s))
         ELSE <<Head(s)>> \o ReplaceBlankRuns(Tail(s))

\* [a-z0-9-], over the characters the model's texts are written in
SlugChar(c) == c \in {"a", "b", "e", "g", "h", "m", "o", "p", "0", "1", "-"}

\* generate_slug without the collapse of consecutive hyphens
CollapseHyphens_None(s) == s

\* re.sub(r'-+', '-', slug)
RECURSIVE CollapseHyphens(_)
CollapseHyphens(s) ==
    IF s = <<>> THEN <<>>
    ELSE IF Head(s) = "-" /\ Len(s) > 1 /\ s[2] = "-"
         THEN CollapseHyphens(Tail(s))
         ELSE <<Head(s)>> \o CollapseHyphens(Tail(s))

\* slug.strip('-')
RECURSIVE StripHyphens(_)
StripHyphens(s) ==
    IF s = <<>> THEN <<>>
    ELSE IF Head(s) = "-" THEN StripHyphens(Tail(s))
    ELSE IF s[Len(s)] = "-" THEN StripHyphens(SubSeq(s, 1, Len(s) - 1))
    ELSE s

generate_slug(text) ==
    LET lowered == [i \in 1..Len(text) |-> Lower(text[i])]
        hyphenated == ReplaceBlankRuns(lowered)
        cleaned == SelectSeq(hyphenated, SlugChar)
    IN StripHyphens(CollapseHyphens(cleaned))

\* f"{dataset_uri}/{entity_class}/{slug}", entity_class already lower case
generate_entity_id(dataset_uri, entity_class, natural_key) ==
    <<dataset_uri, entity_class, generate_slug(natural_key)>>

(***************************************************************************)
(* Entity Builder                                                          *)
(***************************************************************************)
\* Python truthiness of a scraped value: every value of the model is a
\* sequence, and the empty sequence is falsy
Truthy(v) == v # <<>>

SCHEMA_PREFIX == "https://schema.org/"

\* an availability value is <<prefix, token>>; a bare token has prefix ""
StartsWithHttp(availability) == availability[1] # ""

AVAILABILITY_MAP == {"InStock", "OutOfStock", "PreOrder", "Discontinued"}

\* an offer builder that copies the availability as it was given
_build_offer_Verbatim(offer_data) ==
    LET o1 == [x \in {"@type"} |-> "Offer"]
        o2 == IF Has(offer_data, "price") THEN Put(o1, "price", offer_data["price"]) ELSE o1
        o3 == IF Has(offer_data, "priceCurrency")
              THEN Put(o2, "priceCurrency", offer_data["priceCurrency"]) ELSE o2
    IN IF Has(offer_data, "availability")
       THEN Put(o3, "availability", offer_data["availability"]) ELSE o3

\* EntityBuilder._build_offer
\* availability_map.get(availability, f'https://schema.org/{availability}')
\* yields the same text for a token of the table and for any other token
_build_offer(offer_data) ==
    LET o1 == [x \in {"@type"} |-> "Offer"]
        o2 == IF Has(offer_data, "price") THEN Put(o1, "price", offer_data["price"]) ELSE o1
        o3 == IF Has(offer_data, "priceCurrency")
              THEN Put(o2, "priceCurrency", offer_data["priceCurrency"]) ELSE o2
        a == offer_data["availability"]
        o4 == IF Has(offer_data, "availability")
              THEN Put(o3, "availability",
                       IF ~StartsWithHttp(a) THEN <<SCHEMA_PREFIX, a[2]>> ELSE a)
              ELSE o3
    IN o4

\* EntityBuilder._build_brand given a brand name, with no Reuse Manager
\* attached to the builder
_build_brand(dataset_uri, brand_data) ==
    [x \in {"@type", "@id", "name"} |->
        CASE x = "@type" -> "Brand"
          [] x = "@id" -> generate_entity_id(dataset_uri, "brand", brand_data)
          [] x = "name" -> brand_data]

DEFAULT_CURRENCY == <<"U", "S", "D">>
DEFAULT_AVAILABILITY == <<SCHEMA_PREFIX, "InStock">>

\* copy data[f] into the entity when f is present
CopyIf(entity, data, f) == IF Has(data, f) THEN Put(entity, f, data[f]) ELSE entity

\* EntityBuilder.build_product
build_product(dataset_uri, data) ==
    IF ~Has(data, "gtin") THEN Raise("MissingGtin")
    ELSE
    LET product_id == generate_product_id(<<dataset_uri>>, data["gtin"],
                          IF Has(data, "serial") THEN data["serial"] ELSE <<>>,
                          IF Has(data, "lot") THEN data["lot"] ELSE <<>>)
        gtin_14 == normalize_gtin(data["gtin"])
        e0 == [x \in {"@context", "@type", "@id", "gtin14"} |->
                 CASE x = "@context" -> "https://schema.org"
                   [] x = "@type" -> "Product"
                   [] x = "@id" -> product_id.val
                   [] x = "gtin14" -> gtin_14.val]
        e1 == CopyIf(CopyIf(CopyIf(e0, data, "name"), data, "description"), data, "sku")
        e2 == IF Has(data, "brand")
              THEN Put(e1, "brand", _build_brand(dataset_uri, data["brand"])) ELSE e1
        e3 == IF Has(data, "image") THEN Put(e2, "image", <<data["image"]>>) ELSE e2
        offer_data == [x \in {"price", "priceCurrency", "availability"} |->
                 CASE x = "price" -> data["price"]
                   [] x = "priceCurrency" ->
                        IF Has(data, "currency") THEN data["currency"] ELSE DEFAULT_CURRENCY
                   [] x = "availability" ->
                        IF Has(data, "availability") THEN data["availability"]
                        ELSE DEFAULT_AVAILABILITY]
        e4 == IF Has(data, "offers") THEN Put(e3, "offers", _build_offer(data["offers"]))
              ELSE IF Has(data, "price") THEN Put(e3, "offers", _build_offer(offer_data))
              ELSE e3
    IN IF ~product_id.ok THEN product_id
       ELSE IF ~gtin_14.ok THEN gtin_14
       ELSE Ok(e4)

\* path.strip('/'): the segments of the path without the empty ones at
\* either end
RECURSIVE StripSlashes(_)
StripSlashes(segments) ==
    IF segments = <<>> THEN <<>>
    ELSE IF Head(segments) = <<>> THEN StripSlashes(Tail(segments))
    ELSE IF segments[Len(segments)] = <<>>
         THEN StripSlashes(SubSeq(segments, 1, Len(segments) - 1))
    ELSE segments

\* slug.split('.')[0]: the text before the first dot
RECURSIVE BeforeFirstDot(_)
BeforeFirstDot(text) ==
    IF text = <<>> \/ Head(text) = "." THEN <<>>
    ELSE <<Head(text)>> \o BeforeFirstDot(Tail(text))

HOMEPAGE == <<"h", "o", "m", "e", "p", "a", "g", "e">>

WEBPAGE_FIELDS == <<"name", "headline", "description">>

RECURSIVE CopyFields(_, _, _, _)
CopyFields(entity, data, fields, i) ==
    IF i > Len(fields) THEN entity
    ELSE CopyFields(CopyIf(entity, data, fields[i]), data, fields, i + 1)

\* EntityBuilder.build_webpage; a url is <<base, segment, ...>>
build_webpage(dataset_uri, data) ==
    IF ~Has(data, "url") THEN Raise("MissingUrl")
    ELSE
    LET path == StripSlashes(Tail(data["url"]))
        slug == IF Has(data, "slug") THEN data["slug"]
                ELSE IF Has(data, "name") THEN generate_slug(data["name"])
                ELSE IF Has(data, "headline") THEN generate_slug(data["headline"])
                ELSE IF path # <<>> THEN BeforeFirstDot(path[Len(path)])
                ELSE HOMEPAGE
        webpage_id == generate_entity_id(dataset_uri, "webpage", slug)
        entity == [x \in {"@context", "@type", "@id", "url"} |->
                     CASE x = "@context" -> "https://schema.org"
                       [] x = "@type" -> "WebPage"
                       [] x = "@id" -> webpage_id
                       [] x = "url" -> data["url"]]
    IN Ok(CopyFields(entity, data, WEBPAGE_FIELDS, 1))

GTIN_FIELDS == <<"gtin", "gtin13", "gtin14", "gtin12", "gtin8", "ean", "upc">>

FIELD_MAPPINGS == <<
    <<"name", <<"name", "title", "product_name">>>>,
    <<"description", <<"description", "product_description">>>>,
    <<"sku", <<"sku", "product_sku">>>>,
    <<"brand", <<"brand", "product_brand", "manufacturer">>>>,
    <<"image", <<"image", "product_image", "images">>>>,
    <<"price", <<"price", "product_price">>>>,
    <<"currency", <<"currency", "priceCurrency", "product_currency">>>>,
    <<"availability", <<"availability", "product_availability", "stock_status">>>> >>

\* a lookup in which the last usable synonym wins
FirstPresent_Last(scraped_data, source_fields, i) ==
    LET usable == {j \in i..Len(source_fields) :
                     Has(scraped_data, source_fields[j])
                     /\ Truthy(scraped_data[source_fields[j]])}
    IN IF usable = {} THEN 0 ELSE CHOOSE j \in usable : \A k \in usable : k <= j

\* index of the first field of source_fields that is present and truthy in
\* scraped_data, 0 when there is none (the for ... break loop)
RECURSIVE FirstPresent(_, _, _)
FirstPresent(scraped_data, source_fields, i) ==
    IF i > Len(source_fields) THEN 0
    ELSE IF Has(scraped_data, source_fields[i]) /\ Truthy(scraped_data[source_fields[i]])
         THEN i
         ELSE FirstPresent(scraped_data, source_fields, i + 1)

\* the loop over field_mappings, from entry i on
RECURSIVE MapFields(_, _, _)
MapFields(scraped_data, product_data, i) ==
    IF i > Len(FIELD_MAPPINGS) THEN product_data
    ELSE LET target_field == FIELD_MAPPINGS[i][1]
             source_fields == FIELD_MAPPINGS[i][2]
             j == FirstPresent(scraped_data, source_fields, 1)
         IN MapFields(scraped_data,
                      IF j = 0 THEN product_data
                      ELSE Put(product_data, target_field, scraped_data[source_fields[j]]),
                      i + 1)

create_product_from_scraped_data(dataset_uri, scraped_data) ==
    LET g == FirstPresent(scraped_data, GTIN_FIELDS, 1)
    IN IF g = 0 THEN Raise("NoGtinFound")
       ELSE build_product(dataset_uri,
                MapFields(scraped_data,
                          Put(EmptyMap, "gtin", scraped_data[GTIN_FIELDS[g]]), 1))

(***************************************************************************)
(* Structural Validator                                                    *)
(***************************************************************************)
SHAPE_TYPES == {"Product", "Organization", "Person", "WebPage", "Offer", "Brand"}

Required(t) ==
    CASE t = "Product" -> <<"@id", "@type", "name", "gtin14">>
      [] t = "Organization" -> <<"@id", "@type", "name">>
      [] t = "Person" -> <<"@id", "@type", "name">>
      [] t = "WebPage" -> <<"@id", "@type", "url", "name">>
      [] t = "Offer" -> <<"@type", "price", "priceCurrency">>
      [] t = "Brand" -> <<"@id", "@type", "name">>

Recommended(t) ==
    CASE t = "Product" -> <<"description", "brand", "offers", "image">>
      [] t = "Organization" -> <<"url", "logo", "description">>
      [] t = "Person" -> <<"jobTitle", "email">>
      [] t = "WebPage" -> <<"description", "datePublished">>
      [] t = "Offer" -> <<"availability", "url">>
      [] t = "Brand" -> <<"logo", "url">>

ConstraintFields(t) ==
    CASE t = "Product" -> <<"@type", "gtin14", "name", "offers">>
      [] t = "Organization" -> <<"@type", "name", "url">>
      [] t = "Person" -> <<"@type", "name">>
      [] t = "WebPage" -> <<"@type", "url", "name">>
      [] t = "Offer" -> <<"@type", "price", "priceCurrency", "availability">>
      [] t = "Brand" -> <<"@type", "name">>

HTTP_BASES == {"https://example.com", "http://example.com"}

\* the constraint lambdas of the shape table
Constraint(t, f, v) ==
    CASE f = "@type" -> IF t = "WebPage" THEN v \in {"WebPage", "Article", "BlogPosting"}
                        ELSE v = t
      [] f = "gtin14" -> Len(v) = 14 /\ \A i \in 1..Len(v) : IsDigit(v[i])
      [] f = "name" -> Len(v) > 0
      [] f = "offers" -> Has(v, "@type") /\ v["@type"] = "Offer"
      [] f = "url" -> v[1] \in HTTP_BASES
      [] f = "price" -> TRUE
      [] f = "priceCurrency" -> Len(v) = 3
      [] f = "availability" -> v[1] = SCHEMA_PREFIX

Err(kind, field, sub) == [kind |-> kind, field |-> field, sub |-> sub]

\* a validator that reports no absent field
MissingOf_None(entity, fields, kind) == <<>>

\* [Err(k, f) for f in fields if f not in entity]
MissingOf(entity, fields, kind) ==
    LET absent == SelectSeq(fields, LAMBDA f : ~Has(entity, f))
    IN [i \in 1..Len(absent) |-> Err(kind, absent[i], "")]

FailedConstraints(entity, t) ==
    LET failed == SelectSeq(ConstraintFields(t),
                            LAMBDA f : Has(entity, f) /\ ~Constraint(t, f, entity[f]))
    IN [i \in 1..Len(failed) |-> Err("ConstraintFailed", failed[i], "")]

\* [f"Offer: {e}" for e in offer_errors]
Prefixed(msgs, sub) == [i \in 1..Len(msgs) |-> Err(msgs[i].kind, msgs[i].field, sub)]

\* a validator that treats a type without a shape as an error
NoShapeResult_Rejects(ctx, entity_type) ==
    [valid |-> FALSE, errors |-> ctx \o <<Err("UnknownType", entity_type, "")>>,
     warnings |-> <<>>]

\* the result for a type the shape table does not hold: a warning, and
\* valid when no error was collected before
NoShapeResult(ctx, entity_type) ==
    [valid |-> Len(ctx) = 0, errors |-> ctx,
     warnings |-> <<Err("UnknownType", entity_type, "")>>]

\* SHACLValidator.validate: [valid, errors, warnings]
RECURSIVE validate(_, _)
validate(entity, strict) ==
    LET ctx == IF ~Has(entity, "@context") THEN <<Err("MissingContext", "@context", "")>>
               ELSE IF entity["@context"] \notin {"https://schema.org", "http://schema.org"}
                    THEN <<Err("InvalidContext", "@context", "")>>
                    ELSE <<>>
        entity_type == IF Has(entity, "@type") THEN entity["@type"] ELSE ""
    IN IF entity_type = ""
       THEN [valid |-> FALSE, errors |-> ctx \o <<Err("MissingType", "@type", "")>>,
             warnings |-> <<>>]
       ELSE IF entity_type \notin SHAPE_TYPES
       THEN NoShapeResult(ctx, entity_type)
       ELSE
       LET req == MissingOf(entity, Required(entity_type), "MissingRequired")
           rec == MissingOf(entity, Recommended(entity_type), "MissingRecommended")
           con == FailedConstraints(entity, entity_type)
           offer == IF entity_type = "Product" /\ Has(entity, "offers")
                    THEN validate(entity["offers"], strict)
                    ELSE [valid |-> TRUE, errors |-> <<>>, warnings |-> <<>>]
           brand == IF entity_type = "Product" /\ Has(entity, "brand")
                    THEN validate(entity["brand"], strict)
                    ELSE [valid |-> TRUE, errors |-> <<>>, warnings |-> <<>>]
           iri == IF ~Has(entity, "@id") THEN <<>>
                  ELSE (IF entity["@id"][1] \notin HTTP_BASES
                        THEN <<Err("InvalidIri", "@id", "")>> ELSE <<>>)
                       \o (IF entity_type = "Product" /\ "01" \notin Range(Tail(entity["@id"]))
                           THEN <<Err("NotDigitalLink", "@id", "")>> ELSE <<>>)
           errors == ctx \o req \o (IF strict THEN rec ELSE <<>>) \o con
                     \o Prefixed(offer.errors, "Offer") \o Prefixed(brand.errors, "Brand")
                     \o iri
           warnings == (IF strict THEN <<>> ELSE rec)
                       \o Prefixed(offer.warnings, "Offer")
                       \o Prefixed(brand.warnings, "Brand")
       IN [valid |-> Len(errors) = 0, errors |-> errors, warnings |-> warnings]

\* SHACLValidator.validate_batch: per-entity results in input order and the
\* count of invalid entities
validate_batch(entities, strict) ==
    LET results == [i \in 1..Len(entities) |->
                      [index |-> i, valid |-> validate(entities[i], strict).valid]]
    IN [total |-> Len(entities),
        invalid |-> Cardinality({i \in 1..Len(entities) : ~results[i].valid}),
        entities |-> results]

(***************************************************************************)
(* Inputs of the model.                                                    *)
(***************************************************************************)
\* 96385074: a GTIN-8 with a correct check digit
CODE_X == <<9, 6, 3, 8, 5, 0, 7, 4>>
\* 40063-81333931: a GTIN-13 with a correct check digit, written with a hyphen
CODE_Y == <<4, 0, 0, 6, 3, 10, 8, 1, 3, 3, 3, 9, 3, 1>>
\* 96385075: the check digit is wrong
CODE_BAD_CHECK == <<9, 6, 3, 8, 5, 0, 7, 5>>
\* 123: not a GTIN length
CODE_BAD_LENGTH == <<1, 2, 3>>

X14 == normalize_gtin(CODE_X).val
Y14 == normalize_gtin(CODE_Y).val

\* the scraped records a sync run is fed with
REC_X == [gtin |-> CODE_X, name |-> <<"a">>]
REC_Y == [ean |-> CODE_Y, title |-> <<"b">>]
REC_X_NO_NAME == [gtin |-> <<>>, gtin8 |-> CODE_X, price |-> <<"1">>, manufacturer |-> <<"A">>]
REC_BAD_CHECK == [gtin |-> CODE_BAD_CHECK, name |-> <<"a">>]
REC_BAD_LENGTH == [upc |-> CODE_BAD_LENGTH, name |-> <<"a">>]
REC_NO_GTIN == [name |-> <<"a">>, gtin |-> <<>>]

Records == {REC_X, REC_Y, REC_X_NO_NAME, REC_BAD_CHECK, REC_BAD_LENGTH, REC_NO_GTIN}

\* the trade codes the remote store can hold
RemoteCodes == {X14, Y14}

InputLists == UNION {[1..n -> Records] : n \in 0..MaxLen}

\* the entities of the reusable kinds the remote store can hold
BRAND_A == [iri |-> <<DATASET_URI, "brand", <<"a">>>>, type |-> "Brand", name |-> <<"A">>]
BRAND_LEGACY == [iri |-> <<DATASET_URI, "brand", <<"0">>>>, type |-> "Brand", name |-> <<"A">>]
ORG_A == [iri |-> <<DATASET_URI, "organization", <<"a">>>>, type |-> "Organization",
          name |-> <<"a">>]
ANONYMOUS == [iri |-> <<DATASET_URI, "person", <<"1">>>>, type |-> "Person", name |-> <<>>]

(***************************************************************************)
(* State                                                                   *)
(***************************************************************************)
VARIABLES
    pc,                 \* position of the orchestrator
    enable_validation,  \* KGSyncOrchestrator.enable_validation
    enable_reuse,       \* KGSyncOrchestrator.enable_reuse
    products_data,      \* the loaded input list
    batch_size,         \* the batch_size argument
    existing_gtins,     \* sync_products: the snapshot of remote trade codes
    batch_idx,          \* sync_products: index of the current batch (0-based)
    rec_idx,            \* records of the current batch (or list) handled so far
    to_create,          \* sync_products: create set of the current batch
    to_update,          \* sync_products: update set of the current batch
    stats,              \* the statistics of the run
    remote_gtins,       \* remote store: trade codes of its products
    remote_entities,    \* remote store: entities of the reusable kinds
    cache,              \* EntityReuseManager._cache
    calls,              \* write calls issued to the remote store, in order
    fetches,            \* snapshot fetches issued so far
    rpc,                \* Reuse Manager: position of each caller's get_or_create call
    call,               \* Reuse Manager: the arguments and locals of each caller's call
    trace,              \* Reuse Manager: lookup tiers each caller's call has consulted
    outcome,            \* Reuse Manager: the identifier each caller's last call returned
    ncalls,             \* Reuse Manager: get_or_create calls started so far
    served,             \* brand names an earlier call returned an identifier for
    fetched,            \* incremental_update: 'existing', what the last get_entity_by_url answered
    arg,                \* the function and arguments of a library call
    result              \* what the library call returned or raised

syncVars == <<pc, enable_validation, enable_reuse, products_data, batch_size,
              existing_gtins, batch_idx, rec_idx, to_create, to_update, stats,
              remote_gtins, fetches, fetched, arg, result>>

reuseVars == <<rpc, call, trace, outcome, ncalls, served>>

vars == <<syncVars, remote_entities, cache, calls, reuseVars>>

\* no library call
NoArg == [fn |-> ""]

CacheKinds == {"organizations", "people", "brands", "places"}

EmptyCache == [k \in CacheKinds |-> EmptyMap]

SchemaType(kind) ==
    CASE kind = "organizations" -> "Organization"
      [] kind = "people" -> "Person"
      [] kind = "brands" -> "Brand"

Callers == {1, 2}

NoCall == [kind |-> "", name |-> <<>>, iri |-> <<>>, prior |-> <<>>]

ReuseIdle ==
    /\ rpc = [c \in Callers |-> "idle"]
    /\ call = [c \in Callers |-> NoCall]
    /\ trace = [c \in Callers |-> <<>>]
    /\ outcome = [c \in Callers |-> <<>>]
    /\ ncalls = 0
    /\ served = EmptyMap

(***************************************************************************)
(* API Client: the write calls, as the remote store sees them              *)
(***************************************************************************)
WriteCall(site, batch, entities, ok) ==
    [site |-> site, batch |-> batch, entities |-> entities, ok |-> ok]

\* the trade codes of a list of product entities
CodesOf(entities) == {entities[i]["gtin14"] : i \in 1..Len(entities)}

(***************************************************************************)
(* Entity Reuse Manager: preload_cache                                     *)
(***************************************************************************)
\* get_existing_entities_by_type: the entities of one type
EntitiesOfType(type) == {e \in remote_entities : e.type = type}

\* the loop "for org in orgs: if org.get('name'): cache[org['name']] = org['iri']":
\* every listed name is cached with the identifier of one entity of that
\* name (the last one of the listing, whose order the remote store decides)
PreloadResults(kind, old) ==
    LET listed == {e \in EntitiesOfType(SchemaType(kind)) : Truthy(e.name)}
        names == {e.name : e \in listed}
    IN {[n \in names \cup DOMAIN old |->
            IF n \in names THEN f[n] ELSE old[n]] :
        f \in {g \in [names -> {e.iri : e \in listed}] :
                 \A n \in names : \E e \in listed : e.name = n /\ e.iri = g[n]}}

(***************************************************************************)
(* Sync Orchestrator: construction                                         *)
(***************************************************************************)
Init ==
    /\ pc = "new"
    /\ enable_validation \in BOOLEAN
    /\ fetched = <<>>
    /\ arg = NoArg
    /\ result = <<>>
    /\ enable_reuse \in BOOLEAN
    /\ products_data \in InputLists
    /\ batch_size \in 1..MaxBatch
    /\ existing_gtins = {}
    /\ batch_idx = 0
    /\ rec_idx = 0
    /\ to_create = <<>>
    /\ to_update = <<>>
    /\ stats = EmptyMap
    /\ remote_gtins \in SUBSET RemoteCodes
    /\ remote_entities = {BRAND_A, ORG_A, ANONYMOUS}
    /\ cache = EmptyCache
    /\ calls = <<>>
    /\ fetches = 0
    /\ ReuseIdle

\* __init__ without the call of preload_cache
Construct_NoPreload ==
    /\ pc = "new"
    /\ pc' = "constructed"
    /\ cache' = EmptyCache
    /\ UNCHANGED <<arg, result, fetched, enable_validation, enable_reuse, products_data, batch_size,
                   existing_gtins, batch_idx, rec_idx, to_create, to_update, stats,
                   remote_gtins, fetches, remote_entities, calls, reuseVars>>

\* KGSyncOrchestrator.__init__ up to the preload
Construct ==
    /\ pc = "new"
    /\ pc' = IF enable_reuse THEN "preload_organizations" ELSE "constructed"
    /\ cache' = EmptyCache
    /\ UNCHANGED <<arg, result, fetched, enable_validation, enable_reuse, products_data, batch_size,
                   existing_gtins, batch_idx, rec_idx, to_create, to_update, stats,
                   remote_gtins, fetches, remote_entities, calls, reuseVars>>

PreloadKind == [preload_organizations |-> "organizations",
                preload_people |-> "people",
                preload_brands |-> "brands"]

AfterPreload == [preload_organizations |-> "preload_people",
                 preload_people |-> "preload_brands",
                 preload_brands |-> "constructed"]

\* one bulk query of preload_cache; a failing query raises out of __init__
Preload ==
    /\ pc \in DOMAIN PreloadKind
    /\ \/ /\ \E loaded \in PreloadResults(PreloadKind[pc], cache[PreloadKind[pc]]) :
                cache' = [cache EXCEPT ![PreloadKind[pc]] = loaded]
          /\ pc' = AfterPreload[pc]
       \/ /\ pc' = "init_raised"
          /\ UNCHANGED cache
    /\ UNCHANGED <<arg, result, fetched, enable_validation, enable_reuse, products_data, batch_size,
                   existing_gtins, batch_idx, rec_idx, to_create, to_update, stats,
                   remote_gtins, fetches, remote_entities, calls, reuseVars>>

(***************************************************************************)
(* Sync Orchestrator: sync_products                                        *)
(***************************************************************************)
\* the slices taken one record too long: products_data[i:i + batch_size + 1]
batches_Overlapping(data, size) ==
    [k \in 1..((Len(data) + size - 1) \div size) |->
        Slice(data, (k - 1) * size, (k - 1) * size + size + 1)]

\* [products_data[i:i + batch_size] for i in range(0, len(products_data), batch_size)]
batches(data, size) ==
    [k \in 1..((Len(data) + size - 1) \div size) |->
        Slice(data, (k - 1) * size, (k - 1) * size + size)]

Batches == batches(products_data, batch_size)

\* the batch the loop is at
Batch == Batches[batch_idx + 1]

\* a counter that counts a whole list as one
Bump_Once(st, key, n) == [st EXCEPT ![key] = @ + 1]

Bump(st, key, n) == [st EXCEPT ![key] = @ + n]

\* the statistics, the snapshot fetch and the split into batches; a failing
\* fetch raises out of sync_products
Snapshot ==
    /\ pc = "constructed"
    /\ stats' = [total |-> Len(products_data), created |-> 0, updated |-> 0,
                 errors |-> 0, skipped |-> 0]
    /\ fetches' = fetches + 1
    /\ \/ /\ existing_gtins' = remote_gtins
          /\ pc' = "batches"
       \/ /\ pc' = "run_raised"
          /\ UNCHANGED existing_gtins
    /\ UNCHANGED <<arg, result, fetched, enable_validation, enable_reuse, products_data, batch_size,
                   batch_idx, rec_idx, to_create, to_update, remote_gtins,
                   remote_entities, cache, calls, reuseVars>>

\* the head of "for batch_idx, batch in enumerate(batches)", and the return
\* after the last batch
NextBatch ==
    /\ pc = "batches"
    /\ IF batch_idx < Len(Batches)
       THEN /\ pc' = "build"
            /\ to_create' = <<>>
            /\ to_update' = <<>>
            /\ rec_idx' = 0
       ELSE /\ pc' = "done"
            /\ UNCHANGED <<to_create, to_update, rec_idx>>
    /\ UNCHANGED <<arg, result, fetched, enable_validation, enable_reuse, products_data, batch_size,
                   existing_gtins, batch_idx, stats, remote_gtins, fetches,
                   remote_entities, cache, calls, reuseVars>>

\* "if gtin_14 in existing_gtins" with the test inverted
IsExisting_Inverted(gtin_14) == gtin_14 \notin existing_gtins

\* "if gtin_14 in existing_gtins", asked of the live store instead of the snapshot
IsExisting_Live(gtin_14) == gtin_14 \in remote_gtins

\* "if gtin_14 in existing_gtins"
IsExisting(gtin_14) == gtin_14 \in existing_gtins

\* the loop body with the try block around the whole loop: a builder error
\* ends the loop
BuildStep_EndsLoop(product_data) ==
    LET built == create_product_from_scraped_data(DATASET_URI, product_data)
    IN IF built.ok
       THEN /\ IF IsExisting(built.val["gtin14"])
               THEN /\ to_update' = Append(to_update, built.val)
                    /\ UNCHANGED to_create
               ELSE /\ to_create' = Append(to_create, built.val)
                    /\ UNCHANGED to_update
            /\ UNCHANGED stats
            /\ rec_idx' = rec_idx + 1
       ELSE /\ stats' = Bump(stats, "errors", 1)
            /\ UNCHANGED <<to_create, to_update>>
            /\ rec_idx' = Len(Batch)

\* the body of "for product_data in batch": the try block builds and
\* classifies the record, the except block counts the error
BuildStep(product_data) ==
    LET built == create_product_from_scraped_data(DATASET_URI, product_data)
    IN IF built.ok
       THEN /\ IF IsExisting(built.val["gtin14"])
               THEN /\ to_update' = Append(to_update, built.val)
                    /\ UNCHANGED to_create
               ELSE /\ to_create' = Append(to_create, built.val)
                    /\ UNCHANGED to_update
            /\ UNCHANGED stats
            /\ rec_idx' = rec_idx + 1
       ELSE /\ stats' = Bump(stats, "errors", 1)
            /\ UNCHANGED <<to_create, to_update>>
            /\ rec_idx' = rec_idx + 1

\* one pass of "for product_data in batch"
BuildRecord ==
    /\ pc = "build"
    /\ rec_idx < Len(Batch)
    /\ BuildStep(Batch[rec_idx + 1])
    /\ UNCHANGED <<pc, arg, result, fetched, enable_validation, enable_reuse, products_data, batch_size,
                   existing_gtins, batch_idx, remote_gtins, fetches,
                   remote_entities, cache, calls, reuseVars>>

\* the filter left out: every entity is kept
ValidatedOf_KeepsAll(all_entities, results) == all_entities

\* [all_entities[i] for i in valid_indices]
ValidatedOf(all_entities, results) ==
    LET indices == [i \in 1..Len(all_entities) |-> i]
        valid_indices == SelectSeq(indices, LAMBDA i : results.entities[i].valid)
    IN [k \in 1..Len(valid_indices) |-> all_entities[valid_indices[k]]]

InSnapshot(e) == normalize_gtin(e["gtin14"]).val \in existing_gtins

NotInSnapshot(e) == ~InSnapshot(e)

\* the validation gate of a batch
ValidateBatch ==
    /\ pc = "build"
    /\ rec_idx = Len(Batch)
    /\ LET all_entities == to_create \o to_update
           results == validate_batch(all_entities, FALSE)
           all_entities_validated == ValidatedOf(all_entities, results)
       IN IF enable_validation /\ all_entities # <<>> /\ results.invalid > 0
          THEN /\ to_create' = SelectSeq(all_entities_validated, NotInSnapshot)
               /\ to_update' = SelectSeq(all_entities_validated, InSnapshot)
               /\ stats' = Bump(stats, "errors", results.invalid)
          ELSE UNCHANGED <<to_create, to_update, stats>>
    /\ pc' = "create"
    /\ UNCHANGED <<arg, result, fetched, enable_validation, enable_reuse, products_data, batch_size,
                   existing_gtins, batch_idx, rec_idx, remote_gtins, fetches,
                   remote_entities, cache, calls, reuseVars>>

\* the try block with a second attempt: a failed call is issued once more
Dispatch_Retries(site, entities, counter, next) ==
    \/ /\ calls' = Append(calls, WriteCall(site, batch_idx, entities, TRUE))
       /\ stats' = Bump(stats, counter, Len(entities))
       /\ remote_gtins' = remote_gtins \cup CodesOf(entities)
       /\ pc' = next
    \/ /\ calls' = calls \o <<WriteCall(site, batch_idx, entities, FALSE),
                             WriteCall(site, batch_idx, entities, TRUE)>>
       /\ stats' = Bump(stats, counter, Len(entities))
       /\ remote_gtins' = remote_gtins \cup CodesOf(entities)
       /\ pc' = next

\* the call without its try block: a failed call raises out of the run
Dispatch_Uncaught(site, entities, counter, next) ==
    \/ /\ calls' = Append(calls, WriteCall(site, batch_idx, entities, TRUE))
       /\ stats' = Bump(stats, counter, Len(entities))
       /\ remote_gtins' = remote_gtins \cup CodesOf(entities)
       /\ pc' = next
    \/ /\ calls' = Append(calls, WriteCall(site, batch_idx, entities, FALSE))
       /\ UNCHANGED stats
       /\ \E applied \in SUBSET CodesOf(entities) :
             remote_gtins' = remote_gtins \cup applied
       /\ pc' = "run_raised"

\* a call site that leaves the last entity of its list out of the call
Dispatch_DropsLast(site, entities, counter, next) ==
    /\ calls' = Append(calls, WriteCall(site, batch_idx,
                                        SubSeq(entities, 1, Len(entities) - 1), TRUE))
    /\ stats' = Bump(stats, counter, Len(entities))
    /\ remote_gtins' = remote_gtins \cup CodesOf(entities)
    /\ pc' = next

\* client.batch_create_or_update(entities) in its try block, from one of the
\* two call sites: the call returns and the store holds every entity, or it
\* fails, the except block counts the batch, and the store holds any part of it
Dispatch(site, entities, counter, next) ==
    \/ /\ calls' = Append(calls, WriteCall(site, batch_idx, entities, TRUE))
       /\ stats' = Bump(stats, counter, Len(entities))
       /\ remote_gtins' = remote_gtins \cup CodesOf(entities)
       /\ pc' = next
    \/ /\ calls' = Append(calls, WriteCall(site, batch_idx, entities, FALSE))
       /\ stats' = Bump(stats, "errors", Len(entities))
       /\ \E applied \in SUBSET CodesOf(entities) :
             remote_gtins' = remote_gtins \cup applied
       /\ pc' = next

\* "if to_create:" and its try block
DispatchCreate ==
    /\ pc = "create"
    /\ IF to_create # <<>>
       THEN Dispatch("create", to_create, "created", "update")
       ELSE /\ pc' = "update"
            /\ UNCHANGED <<calls, stats, remote_gtins>>
    /\ UNCHANGED <<arg, result, fetched, enable_validation, enable_reuse, products_data, batch_size,
                   existing_gtins, batch_idx, rec_idx, to_create, to_update,
                   fetches, remote_entities, cache, reuseVars>>

\* an end of batch that steps over the batch that follows
DispatchUpdate_SkipsBatch ==
    /\ pc = "update"
    /\ IF to_update # <<>>
       THEN Dispatch("update", to_update, "updated", "batches")
       ELSE /\ pc' = "batches"
            /\ UNCHANGED <<calls, stats, remote_gtins>>
    /\ batch_idx' = batch_idx + 2
    /\ UNCHANGED <<arg, result, fetched, enable_validation, enable_reuse, products_data, batch_size,
                   existing_gtins, rec_idx, to_create, to_update,
                   fetches, remote_entities, cache, reuseVars>>

\* "if to_update:" and its try block, the end of the batch
DispatchUpdate ==
    /\ pc = "update"
    /\ IF to_update # <<>>
       THEN Dispatch("update", to_update, "updated", "batches")
       ELSE /\ pc' = "batches"
            /\ UNCHANGED <<calls, stats, remote_gtins>>
    /\ batch_idx' = batch_idx + 1
    /\ UNCHANGED <<arg, result, fetched, enable_validation, enable_reuse, products_data, batch_size,
                   existing_gtins, rec_idx, to_create, to_update,
                   fetches, remote_entities, cache, reuseVars>>

\* another writer adds a product to the remote store between two batches
OtherWriter ==
    /\ pc = "batches"
    /\ \E code \in RemoteCodes \ remote_gtins : remote_gtins' = remote_gtins \cup {code}
    /\ UNCHANGED <<pc, arg, result, fetched, enable_validation, enable_reuse, products_data, batch_size,
                   existing_gtins, batch_idx, rec_idx, to_create, to_update, stats,
                   fetches, remote_entities, cache, calls, reuseVars>>

(***************************************************************************)
(* Sync Orchestrator: incremental_update                                   *)
(***************************************************************************)
COMPARABLE_FIELDS == <<"name", "description", "price", "image", "sku", "availability">>

\* the operation _generate_patches appends for one comparable field, if any:
\* new.get(name) is compared with existing.get("schema:" + name)
PatchOpsFor(existing, new, field) ==
    LET stored == "schema:" \o field
    IN IF Has(new, field)
       THEN IF Has(existing, stored) /\ existing[stored] = new[field] THEN <<>>
            ELSE <<[op |-> IF Has(existing, stored) /\ Truthy(existing[stored])
                           THEN "replace" ELSE "add",
                    path |-> field, value |-> new[field]]>>
       ELSE IF Has(existing, stored) /\ Truthy(existing[stored])
            THEN <<[op |-> "remove", path |-> field, value |-> <<>>]>>
            ELSE <<>>

\* the list the loop of _generate_patches builds
RECURSIVE BuiltPatches(_, _, _)
BuiltPatches(existing, new, i) ==
    IF i > Len(COMPARABLE_FIELDS) THEN <<>>
    ELSE PatchOpsFor(existing, new, COMPARABLE_FIELDS[i]) \o BuiltPatches(existing, new, i + 1)

\* _generate_patches with the list its loop has built as the result
_generate_patches_Returns(existing, new) == BuiltPatches(existing, new, 1)

\* _generate_patches ends without a return statement: whatever list the loop
\* has built, the caller receives None, which "if not patches" treats like
\* the empty list
_generate_patches(existing, new) ==
    LET patches == BuiltPatches(existing, new, 1)
    IN <<>>

\* the entity get_entity_by_url selects: iri, types, name and description
StoredEntity(entity_id) ==
    [iri |-> entity_id, types |-> <<"Product">>, name |-> <<"a">>]

IncrementalUpdate ==
    /\ pc = "constructed"
    /\ stats' = [total |-> Len(products_data), updated |-> 0, no_changes |-> 0,
                 errors |-> 0]
    /\ rec_idx' = 0
    /\ pc' = "incremental"
    /\ UNCHANGED <<arg, result, fetched, enable_validation, enable_reuse, products_data, batch_size,
                   existing_gtins, batch_idx, to_create, to_update, remote_gtins,
                   fetches, remote_entities, cache, calls, reuseVars>>

\* a loop body that upserts the new entity when the stored one is not found
PatchStep_CreatesMissing(product_data) ==
    LET built == create_product_from_scraped_data(DATASET_URI, product_data)
    IN IF ~built.ok
       THEN /\ stats' = Bump(stats, "errors", 1)
            /\ UNCHANGED <<calls, fetched>>
       ELSE /\ fetched' = <<>>
            /\ calls' = Append(calls, WriteCall("upsert", rec_idx, <<built.val>>, TRUE))
            /\ stats' = Bump(stats, "updated", 1)

\* a loop body that skips a product that is not found without counting it
PatchStep_NotFoundUncounted(product_data) ==
    LET built == create_product_from_scraped_data(DATASET_URI, product_data)
    IN IF ~built.ok
       THEN /\ stats' = Bump(stats, "errors", 1)
            /\ UNCHANGED <<calls, fetched>>
       ELSE \E found \in {<<>>, <<StoredEntity(built.val["@id"])>>} :
              /\ fetched' = found
              /\ IF found = <<>>
                 THEN UNCHANGED <<stats, calls>>
                 ELSE LET entity_id == built.val["@id"]
                          patches == _generate_patches(found[1], built.val)
                      IN IF patches = <<>>
                         THEN /\ stats' = Bump(stats, "no_changes", 1)
                              /\ UNCHANGED calls
                         ELSE \/ /\ calls' = Append(calls,
                                        WriteCall("patch", rec_idx, patches, TRUE))
                                 /\ stats' = Bump(stats, "updated", 1)
                              \/ /\ calls' = Append(calls,
                                        WriteCall("patch", rec_idx, patches, FALSE))
                                 /\ stats' = Bump(stats, "errors", 1)

\* the body of "for product_data in products_data" of incremental_update;
\* get_entity_by_url answers None when the entity is absent or the query fails
PatchStep(product_data) ==
    LET built == create_product_from_scraped_data(DATASET_URI, product_data)
    IN IF ~built.ok
       THEN /\ stats' = Bump(stats, "errors", 1)
            /\ UNCHANGED <<calls, fetched>>
       ELSE \E found \in {<<>>, <<StoredEntity(built.val["@id"])>>} :
              /\ fetched' = found
              /\ IF found = <<>>
                 THEN /\ stats' = Bump(stats, "errors", 1)
                      /\ UNCHANGED calls
                 ELSE LET entity_id == built.val["@id"]
                          patches == _generate_patches(found[1], built.val)
                      IN IF patches = <<>>
                         THEN /\ stats' = Bump(stats, "no_changes", 1)
                              /\ UNCHANGED calls
                         ELSE \/ /\ calls' = Append(calls,
                                        WriteCall("patch", rec_idx, patches, TRUE))
                                 /\ stats' = Bump(stats, "updated", 1)
                              \/ /\ calls' = Append(calls,
                                        WriteCall("patch", rec_idx, patches, FALSE))
                                 /\ stats' = Bump(stats, "errors", 1)

PatchRecord ==
    /\ pc = "incremental"
    /\ rec_idx < Len(products_data)
    /\ PatchStep(products_data[rec_idx + 1])
    /\ rec_idx' = rec_idx + 1
    /\ UNCHANGED <<pc, arg, result, enable_validation, enable_reuse, products_data,
                   batch_size, existing_gtins, batch_idx, to_create, to_update,
                   remote_gtins, fetches, remote_entities, cache, reuseVars>>

\* the return of incremental_update
IncrementalDone ==
    /\ pc = "incremental"
    /\ rec_idx = Len(products_data)
    /\ pc' = "done_incremental"
    /\ UNCHANGED <<arg, result, fetched, enable_validation, enable_reuse, products_data, batch_size,
                   existing_gtins, batch_idx, rec_idx, to_create, to_update, stats,
                   remote_gtins, fetches, remote_entities, cache, calls, reuseVars>>

(***************************************************************************)
(* Entity Reuse Manager: get_or_create_organization, get_or_create_person, *)
(* get_or_create_brand, clear_cache                                        *)
(*                                                                         *)
(* A call is at "direct" before the existence check of the generated       *)
(* identifier, at "query" before the name-based query, at "create" before  *)
(* the create call, and ends at "returned" or "raised".  trace lists the   *)
(* tiers the call has consulted, each with its result.                     *)
(***************************************************************************)
Kinds == {"organizations", "people", "brands"}

\* the entity_class argument of generate_entity_id, lower-cased
EntityClass(kind) ==
    CASE kind = "organizations" -> "organization"
      [] kind = "people" -> "person"
      [] kind = "brands" -> "brand"

\* the names a caller asks for: "A" and "a" share a slug, <<>> is the empty name
Names == {<<"A">>, <<"a">>, <<>>}

\* the argument of a call: a mapping that holds a name or holds none
CallData == {[name |-> n] : n \in Names} \cup {EmptyMap}

TIERS == <<"cache", "direct", "query", "create">>

Consulted(tier, hit) == [tier |-> tier, hit |-> hit]

Ready(c) == rpc[c] \in {"idle", "returned", "raised"}

\* the guard in front of the cache check: the organization and person calls
\* test "'name' not in data", the brand call tests "not brand_name"
NameMissing(kind, data) ==
    IF kind = "brands" THEN ~Has(data, "name") \/ ~Truthy(data["name"])
    ELSE ~Has(data, "name")

\* a manager that returns the identifier without the assignment to _cache
Cached_NotStored(kind, name, iri) == cache

Cached(kind, name, iri) == [cache EXCEPT ![kind] = Put(@, name, iri)]

\* a brand call that returns records the identifier it returned
Served(kind, name, iri) == IF kind = "brands" THEN Put(served, name, iri) ELSE served

\* entry of a get_or_create call up to the existence check: the name guard
\* and the cache lookup
StartCall(c) ==
    /\ pc = "constructed"
    /\ Ready(c)
    /\ ncalls < MaxCalls
    /\ ncalls' = ncalls + 1
    /\ \E kind \in Kinds, data \in CallData :
         IF NameMissing(kind, data)
         THEN /\ rpc' = [rpc EXCEPT ![c] = "raised"]
              /\ call' = [call EXCEPT ![c] = [NoCall EXCEPT !.kind = kind]]
              /\ trace' = [trace EXCEPT ![c] = <<>>]
              /\ UNCHANGED <<outcome, served>>
         ELSE LET name == data["name"]
                  prior == IF kind = "brands" /\ Has(served, name)
                           THEN <<served[name]>> ELSE <<>>
              IN IF Has(cache[kind], name)
                 THEN /\ rpc' = [rpc EXCEPT ![c] = "returned"]
                      /\ call' = [call EXCEPT ![c] =
                                    [kind |-> kind, name |-> name, iri |-> <<>>,
                                     prior |-> prior]]
                      /\ trace' = [trace EXCEPT ![c] = <<Consulted("cache", TRUE)>>]
                      /\ outcome' = [outcome EXCEPT ![c] = cache[kind][name]]
                      /\ served' = Served(kind, name, cache[kind][name])
                 ELSE /\ rpc' = [rpc EXCEPT ![c] = "direct"]
                      /\ call' = [call EXCEPT ![c] =
                                    [kind |-> kind, name |-> name,
                                     iri |-> generate_entity_id(DATASET_URI,
                                                 EntityClass(kind), name),
                                     prior |-> prior]]
                      /\ trace' = [trace EXCEPT ![c] = <<Consulted("cache", FALSE)>>]
                      /\ UNCHANGED <<outcome, served>>
    /\ UNCHANGED <<syncVars, remote_entities, cache, calls>>

\* existing = client.get_entity_by_url(iri), which answers None when the
\* entity is absent and also when the query fails
DirectCheck(c) ==
    /\ rpc[c] = "direct"
    /\ \E existing \in {FALSE, \E e \in remote_entities : e.iri = call[c].iri} :
         /\ trace' = [trace EXCEPT ![c] = Append(@, Consulted("direct", existing))]
         /\ IF existing
            THEN /\ cache' = Cached(call[c].kind, call[c].name, call[c].iri)
                 /\ rpc' = [rpc EXCEPT ![c] = "returned"]
                 /\ outcome' = [outcome EXCEPT ![c] = call[c].iri]
                 /\ served' = Served(call[c].kind, call[c].name, call[c].iri)
            ELSE /\ rpc' = [rpc EXCEPT ![c] = "query"]
                 /\ UNCHANGED <<cache, outcome, served>>
    /\ UNCHANGED <<syncVars, remote_entities, calls, call, ncalls>>

\* a name-based query whose "if entities:" branch does not return
NameQuery_NoReturn(c) ==
    /\ rpc[c] = "query"
    /\ LET matches == {e \in EntitiesOfType(SchemaType(call[c].kind)) :
                          e.name = call[c].name}
       IN /\ rpc' = [rpc EXCEPT ![c] = "create"]
          /\ trace' = [trace EXCEPT ![c] = Append(@, Consulted("query", matches # {}))]
          /\ UNCHANGED <<cache, outcome, served>>
    /\ UNCHANGED <<syncVars, remote_entities, calls, call, ncalls>>

\* the name-based query (rows: 1): it raises, or answers one entity of the
\* type and name, or answers none
NameQuery(c) ==
    /\ rpc[c] = "query"
    /\ LET matches == {e \in EntitiesOfType(SchemaType(call[c].kind)) :
                          e.name = call[c].name}
       IN \/ /\ rpc' = [rpc EXCEPT ![c] = "raised"]
             /\ trace' = [trace EXCEPT ![c] = Append(@, Consulted("query", FALSE))]
             /\ UNCHANGED <<cache, outcome, served>>
          \/ /\ matches = {}
             /\ rpc' = [rpc EXCEPT ![c] = "create"]
             /\ trace' = [trace EXCEPT ![c] = Append(@, Consulted("query", FALSE))]
             /\ UNCHANGED <<cache, outcome, served>>
          \/ \E e \in matches :
               /\ cache' = Cached(call[c].kind, call[c].name, e.iri)
               /\ rpc' = [rpc EXCEPT ![c] = "returned"]
               /\ trace' = [trace EXCEPT ![c] = Append(@, Consulted("query", TRUE))]
               /\ outcome' = [outcome EXCEPT ![c] = e.iri]
               /\ served' = Served(call[c].kind, call[c].name, e.iri)
    /\ UNCHANGED <<syncVars, remote_entities, calls, call, ncalls>>

\* a create path that stores the identifier in the cache before the create
\* call, so that a failed call leaves the entry behind
CreateEntity_CachesFirst(c) ==
    /\ rpc[c] = "create"
    /\ LET entity == [iri |-> call[c].iri, type |-> SchemaType(call[c].kind),
                      name |-> call[c].name]
       IN /\ cache' = Cached(call[c].kind, call[c].name, call[c].iri)
          /\ \/ /\ calls' = Append(calls, WriteCall("upsert", 0, <<entity>>, TRUE))
                /\ remote_entities' = remote_entities \cup {entity}
                /\ rpc' = [rpc EXCEPT ![c] = "returned"]
                /\ outcome' = [outcome EXCEPT ![c] = call[c].iri]
                /\ served' = Served(call[c].kind, call[c].name, call[c].iri)
             \/ /\ calls' = Append(calls, WriteCall("upsert", 0, <<entity>>, FALSE))
                /\ \E applied \in SUBSET {entity} :
                      remote_entities' = remote_entities \cup applied
                /\ rpc' = [rpc EXCEPT ![c] = "raised"]
                /\ UNCHANGED <<outcome, served>>
    /\ trace' = [trace EXCEPT ![c] = Append(@, Consulted("create", FALSE))]
    /\ UNCHANGED <<syncVars, call, ncalls>>

\* a create path that looks the key up in the cache again and returns the
\* cached identifier without a write when another caller has stored it
CreateEntity_Rechecks(c) ==
    /\ rpc[c] = "create"
    /\ LET entity == [iri |-> call[c].iri, type |-> SchemaType(call[c].kind),
                      name |-> call[c].name]
           known == Has(cache[call[c].kind], call[c].name)
       IN /\ calls' = IF known THEN calls
                      ELSE Append(calls, WriteCall("upsert", 0, <<entity>>, TRUE))
          /\ remote_entities' = IF known THEN remote_entities
                                ELSE remote_entities \cup {entity}
          /\ cache' = IF known THEN cache
                      ELSE Cached(call[c].kind, call[c].name, call[c].iri)
          /\ rpc' = [rpc EXCEPT ![c] = "returned"]
          /\ outcome' = [outcome EXCEPT ![c] =
                            IF known THEN cache[call[c].kind][call[c].name]
                            ELSE call[c].iri]
          /\ served' = Served(call[c].kind, call[c].name, call[c].iri)
    /\ trace' = [trace EXCEPT ![c] = Append(@, Consulted("create", FALSE))]
    /\ UNCHANGED <<syncVars, call, ncalls>>

\* client.create_or_update_entity(entity) and the cache entry after it; a
\* failing call raises, whether or not the store has applied the write
CreateEntity(c) ==
    /\ rpc[c] = "create"
    /\ LET entity == [iri |-> call[c].iri, type |-> SchemaType(call[c].kind),
                      name |-> call[c].name]
       IN \/ /\ calls' = Append(calls, WriteCall("upsert", 0, <<entity>>, TRUE))
             /\ remote_entities' = remote_entities \cup {entity}
             /\ cache' = Cached(call[c].kind, call[c].name, call[c].iri)
             /\ rpc' = [rpc EXCEPT ![c] = "returned"]
             /\ outcome' = [outcome EXCEPT ![c] = call[c].iri]
             /\ served' = Served(call[c].kind, call[c].name, call[c].iri)
          \/ /\ calls' = Append(calls, WriteCall("upsert", 0, <<entity>>, FALSE))
             /\ \E applied \in SUBSET {entity} :
                   remote_entities' = remote_entities \cup applied
             /\ rpc' = [rpc EXCEPT ![c] = "raised"]
             /\ UNCHANGED <<cache, outcome, served>>
    /\ trace' = [trace EXCEPT ![c] = Append(@, Consulted("create", FALSE))]
    /\ UNCHANGED <<syncVars, call, ncalls>>

\* clear_cache, between two calls
ClearCache ==
    /\ pc = "constructed"
    /\ \A c \in Callers : Ready(c)
    /\ cache # EmptyCache
    /\ cache' = EmptyCache
    /\ served' = EmptyMap
    /\ rpc' = [c \in Callers |-> "idle"]
    /\ call' = [c \in Callers |-> NoCall]
    /\ trace' = [c \in Callers |-> <<>>]
    /\ outcome' = [c \in Callers |-> <<>>]
    /\ UNCHANGED <<syncVars, remote_entities, calls, ncalls>>

\* a Reuse Manager in single-threaded use, constructed by the orchestrator
\* (with the preload) or on its own (with an empty cache)
InitReuse ==
    /\ pc \in {"new", "constructed"}
    /\ enable_validation = TRUE
    /\ fetched = <<>>
    /\ arg = NoArg
    /\ result = <<>>
    /\ enable_reuse = TRUE
    /\ products_data = <<>>
    /\ batch_size = 1
    /\ existing_gtins = {}
    /\ batch_idx = 0
    /\ rec_idx = 0
    /\ to_create = <<>>
    /\ to_update = <<>>
    /\ stats = EmptyMap
    /\ remote_gtins = {}
    /\ remote_entities \in SUBSET {BRAND_A, BRAND_LEGACY, ORG_A, ANONYMOUS}
    /\ cache = EmptyCache
    /\ calls = <<>>
    /\ fetches = 0
    /\ ReuseIdle

SequentialCaller == CHOOSE c \in Callers : \A d \in Callers : c <= d

NextReuse ==
    \/ Construct
    \/ Preload
    \/ StartCall(SequentialCaller)
    \/ DirectCheck(SequentialCaller)
    \/ NameQuery(SequentialCaller)
    \/ CreateEntity(SequentialCaller)
    \/ ClearCache

SpecReuse == InitReuse /\ [][NextReuse]_vars

\* one Reuse Manager shared by two callers whose calls interleave at the
\* remote calls; the manager holds no lock
InitShared ==
    /\ InitReuse
    /\ pc = "constructed"
    /\ remote_entities \in SUBSET {BRAND_LEGACY, ORG_A}

NextShared ==
    \/ \E c \in Callers : StartCall(c)
    \/ \E c \in Callers : DirectCheck(c)
    \/ \E c \in Callers : NameQuery(c)
    \/ \E c \in Callers : CreateEntity(c)
    \/ ClearCache

SpecShared == InitShared /\ [][NextShared]_vars

(***************************************************************************)
(* Library calls: the identifier functions applied to an argument          *)
(***************************************************************************)
PatternDigit(k, i) == (3 * i + 7 * k + i * i) % 10

\* the trade codes of n digits: a pattern of digits with every choice of
\* the last two
Codes(n) ==
    {[i \in 1..n |-> IF i = n THEN d[1] ELSE IF i = n - 1 THEN d[2] ELSE PatternDigit(k, i)] :
        d \in (0..9) \X (0..9), k \in 0..MaxSeed}

\* a code written with a separator
Dashed(c) == IF Len(c) >= 4 THEN SubSeq(c, 1, 3) \o <<10>> \o SubSeq(c, 4, Len(c))
             ELSE <<10>> \o c

GtinArgs ==
    LET plain == UNION {Codes(n) : n \in 0..MaxDigits}
    IN plain \cup {Dashed(c) : c \in plain}

CODE_EXAMPLE == <<1, 2, 3, 4, 5, 6, 7, 8, 9, 0, 1, 2, 3, 1>>

\* base URIs with no, one and two trailing slashes
Bases == {<<DATASET_URI>>, <<DATASET_URI, "">>, <<DATASET_URI, "", "">>}

ProductIdArgs ==
    [fn : {"generate_product_id"}, dataset_uri : Bases,
     gtin : {CODE_X, CODE_Y, CODE_EXAMPLE, CODE_BAD_CHECK, CODE_BAD_LENGTH},
     serial : {<<>>, <<"S">>}, lot : {<<>>, <<"L">>}]

SlugAlphabet == {"A", "b", "0", "-", " ", "_", "!"}

Texts == UNION {[1..n -> SlugAlphabet] : n \in 0..MaxText}

\* a type tag the rule table does not know
UNKNOWN_TYPE == "Thing"

\* the fields an entity given to validate may hold besides its type tag
OptionalFields(t) ==
    {"@context"} \cup (IF t \in SHAPE_TYPES THEN Range(Required(t)) \ {"@type"}
                       ELSE {"@id", "name"})

SampleValue(t, f) ==
    CASE f = "@context" -> "https://schema.org"
      [] f = "@type" -> t
      [] f = "@id" -> IF t = "Product" THEN <<DATASET_URI, "01", X14>>
                      ELSE <<DATASET_URI, "thing", <<"n">>>>
      [] f = "name" -> <<"N">>
      [] f = "gtin14" -> X14
      [] f = "url" -> <<DATASET_URI, "about">>
      [] f = "price" -> <<"1">>
      [] f = "priceCurrency" -> DEFAULT_CURRENCY

\* entities of every type of the rule table and of an unknown type, with
\* every choice of the fields that are present
WellContexted ==
    UNION {{[f \in present \cup {"@type"} |-> SampleValue(t, f)] :
               present \in SUBSET OptionalFields(t)} :
           t \in SHAPE_TYPES \cup {UNKNOWN_TYPE}}

\* a context that is not one of the two schema namespaces
OTHER_CONTEXT == "https://example.org"

Entities ==
    WellContexted
    \cup {[e EXCEPT !["@context"] = OTHER_CONTEXT] :
             e \in {x \in WellContexted : Has(x, "@context")}}

\* availability values a record can hold: bare tokens of the table, a bare
\* token outside it, and values that are already URLs
OTHER_TOKEN == "LimitedAvailability"
OTHER_PREFIX == "http://example.com/"

AvailabilityValues ==
    {<<"", t>> : t \in AVAILABILITY_MAP \cup {OTHER_TOKEN}}
    \cup {<<SCHEMA_PREFIX, "InStock">>, <<OTHER_PREFIX, "Sold">>}

FlatFields == {"name", "price", "currency", "brand", "availability"}

FlatValue(f, gtin, availability) ==
    CASE f = "gtin" -> gtin
      [] f = "name" -> <<"a">>
      [] f = "price" -> <<"1">>
      [] f = "currency" -> <<"E", "U", "R">>
      [] f = "brand" -> <<"A">>
      [] f = "availability" -> availability

\* the dictionaries given as 'offers'
OfferData ==
    {[f \in present |-> IF f = "price" THEN <<"1">>
                        ELSE IF f = "priceCurrency" THEN DEFAULT_CURRENCY
                        ELSE a] :
        present \in SUBSET {"price", "priceCurrency", "availability"},
        a \in AvailabilityValues}

\* the records given to build_product: flat fields in every combination,
\* records with an 'offers' dictionary, and a record without a trade code
ProductData ==
    {[f \in present \cup {"gtin"} |-> FlatValue(f, g, a)] :
        present \in SUBSET FlatFields, g \in {CODE_X, CODE_BAD_CHECK},
        a \in AvailabilityValues}
    \cup {[gtin |-> CODE_X, name |-> <<"a">>, price |-> <<"2">>, offers |-> o] :
             o \in OfferData}
    \cup {[name |-> <<"a">>]}

\* path segments: plain, with one extension, with a dot inside the name
\* and an extension, and with a leading dot
Segments == {<<"a">>, <<"a", ".", "b">>, <<"a", ".", "0", ".", "b">>, <<".", "b">>}

Urls ==
    {<<DATASET_URI>>, <<DATASET_URI, <<>>>>}
    \cup UNION {{<<DATASET_URI, seg>>, <<DATASET_URI, seg, <<>>>>,
                 <<DATASET_URI, <<"b">>, seg>>} : seg \in Segments}

WebpageValue(f, url) ==
    CASE f = "url" -> url
      [] f = "slug" -> <<"b", "-", "1">>
      [] f = "name" -> <<"A", " ", "b">>
      [] f = "headline" -> <<"0", "!">>

\* the records given to build_webpage
WebpageData ==
    {[f \in present |-> WebpageValue(f, url)] :
        present \in SUBSET {"url", "slug", "name", "headline"}, url \in Urls}

\* the keys a scraped record of the model can hold, and what each holds
ScrapedKeys == {"gtin", "ean", "upc", "name", "title"}
Holdings == {"absent", "empty", "x", "y"}

ScrapedValue(k, h) ==
    IF h = "empty" THEN <<>>
    ELSE IF k \in {"name", "title"} THEN (IF h = "x" THEN <<"a">> ELSE <<"b">>)
    ELSE (IF h = "x" THEN CODE_X ELSE CODE_Y)

\* the scraped records given to create_product_from_scraped_data: every key
\* absent, empty or holding one of two values
ScrapedData ==
    {[k \in {x \in ScrapedKeys : h[x] # "absent"} |-> ScrapedValue(k, h[k])] :
        h \in [ScrapedKeys -> Holdings]}

LibraryArgs ==
    [fn : {"normalize_gtin"}, gtin : GtinArgs]
    \cup ProductIdArgs
    \cup [fn : {"generate_slug"}, text : Texts]
    \cup [fn : {"validate"}, entity : Entities, strict : BOOLEAN]
    \cup [fn : {"build_product"}, data : ProductData]
    \cup [fn : {"build_webpage"}, data : WebpageData]
    \cup [fn : {"create_product_from_scraped_data"}, scraped_data : ScrapedData]

libraryFrame == <<pc, fetched, enable_validation, enable_reuse, products_data,
                  batch_size, existing_gtins, batch_idx, rec_idx, to_create,
                  to_update, stats, remote_gtins, fetches, remote_entities, cache,
                  calls, reuseVars>>

InitLibrary ==
    /\ pc = "library"
    /\ enable_validation = FALSE
    /\ enable_reuse = FALSE
    /\ fetched = <<>>
    /\ products_data = <<>>
    /\ batch_size = 1
    /\ existing_gtins = {}
    /\ batch_idx = 0
    /\ rec_idx = 0
    /\ to_create = <<>>
    /\ to_update = <<>>
    /\ stats = EmptyMap
    /\ remote_gtins = {}
    /\ remote_entities = {}
    /\ cache = EmptyCache
    /\ calls = <<>>
    /\ fetches = 0
    /\ ReuseIdle
    /\ arg \in LibraryArgs
    /\ result = <<>>

CallNormalizeGtin ==
    /\ arg.fn = "normalize_gtin"
    /\ result = <<>>
    /\ result' = <<normalize_gtin(arg.gtin)>>
    /\ UNCHANGED <<arg, libraryFrame>>

CallGenerateProductId ==
    /\ arg.fn = "generate_product_id"
    /\ result = <<>>
    /\ result' = <<generate_product_id(arg.dataset_uri, arg.gtin, arg.serial, arg.lot)>>
    /\ UNCHANGED <<arg, libraryFrame>>

CallGenerateSlug ==
    /\ arg.fn = "generate_slug"
    /\ result = <<>>
    /\ result' = <<generate_slug(arg.text)>>
    /\ UNCHANGED <<arg, libraryFrame>>

CallValidate ==
    /\ arg.fn = "validate"
    /\ result = <<>>
    /\ result' = <<validate(arg.entity, arg.strict)>>
    /\ UNCHANGED <<arg, libraryFrame>>

CallBuildProduct ==
    /\ arg.fn = "build_product"
    /\ result = <<>>
    /\ result' = <<build_product(DATASET_URI, arg.data)>>
    /\ UNCHANGED <<arg, libraryFrame>>

\* the entity build_product returned is handed to validate, as the dry run
\* and the orchestrator's gate do
ValidateBuilt ==
    /\ arg.fn = "build_product"
    /\ Len(result) = 1
    /\ result[1].ok
    /\ \E strict \in BOOLEAN :
          result' = result \o <<[strict |-> strict,
                                 report |-> validate(result[1].val, strict)]>>
    /\ UNCHANGED <<arg, libraryFrame>>

CallBuildWebpage ==
    /\ arg.fn = "build_webpage"
    /\ result = <<>>
    /\ result' = <<build_webpage(DATASET_URI, arg.data)>>
    /\ UNCHANGED <<arg, libraryFrame>>

CallCreateProduct ==
    /\ arg.fn = "create_product_from_scraped_data"
    /\ result = <<>>
    /\ result' = <<create_product_from_scraped_data(DATASET_URI, arg.scraped_data)>>
    /\ UNCHANGED <<arg, libraryFrame>>

NextLibrary ==
    \/ CallNormalizeGtin
    \/ CallGenerateProductId
    \/ CallGenerateSlug
    \/ CallValidate
    \/ CallBuildProduct
    \/ CallBuildWebpage
    \/ CallCreateProduct
    \/ ValidateBuilt

SpecLibrary == InitLibrary /\ [][NextLibrary]_vars

Next ==
    \/ Construct
    \/ Preload
    \/ Snapshot
    \/ NextBatch
    \/ BuildRecord
    \/ ValidateBatch
    \/ DispatchCreate
    \/ DispatchUpdate
    \/ OtherWriter
    \/ IncrementalUpdate
    \/ PatchRecord
    \/ IncrementalDone

Spec == Init /\ [][Next]_vars

\* a sync_products run on its own.  The statements of the method follow one
\* another and every remote call returns, with a result or an error, so the
\* run always takes its next step.  Proceeds is the control part of the
\* steps of sync_products: at each position of the run it is enabled
\* exactly when the step of that position is, and a step of the run
\* satisfies it exactly when it is that step.
control == <<pc, rec_idx>>

Proceeds ==
    \/ pc = "constructed" /\ pc' \in {"batches", "run_raised"} /\ rec_idx' = rec_idx
    \/ pc = "batches" /\ batch_idx < Len(Batches) /\ pc' = "build" /\ rec_idx' = 0
    \/ pc = "batches" /\ batch_idx >= Len(Batches) /\ pc' = "done" /\ rec_idx' = rec_idx
    \/ pc = "build" /\ rec_idx < Len(Batch) /\ pc' = pc /\ rec_idx' = rec_idx + 1
    \/ pc = "build" /\ rec_idx = Len(Batch) /\ pc' = "create" /\ rec_idx' = rec_idx
    \/ pc = "create" /\ pc' = "update" /\ rec_idx' = rec_idx
    \/ pc = "update" /\ pc' = "batches" /\ rec_idx' = rec_idx

NextSync ==
    \/ Construct
    \/ Preload
    \/ Snapshot
    \/ NextBatch
    \/ BuildRecord
    \/ ValidateBatch
    \/ DispatchCreate
    \/ DispatchUpdate
    \/ OtherWriter

SpecSync == Init /\ [][NextSync]_vars /\ WF_control(Proceeds)

(***************************************************************************)
(* Properties of sync_products                                             *)
(***************************************************************************)
Built(r) == create_product_from_scraped_data(DATASET_URI, r)

Builds(r) == Built(r).ok

EntityOf(r) == Built(r).val

IsValid(e) == validate(e, FALSE).valid

\* the positions of a sync run after the snapshot fetch
RunStates == {"batches", "build", "create", "update", "done"}

\* the records of a batch whose build succeeds
WithoutFailing(batch) == SelectSeq(batch, Builds)

\* the entities of the records of a batch that build, in input order
BuiltEntities(batch) ==
    LET ok == WithoutFailing(batch)
    IN [i \in 1..Len(ok) |-> EntityOf(ok[i])]

\* the built entities of a batch that pass the validation gate
Survivors(batch) ==
    IF enable_validation THEN SelectSeq(BuiltEntities(batch), IsValid)
    ELSE BuiltEntities(batch)

CodeInSnapshot(e) == normalize_gtin(e["gtin14"]).val \in existing_gtins

\* the entities a call site is expected to send for a batch
ExpectedEntities(site, batch) ==
    SelectSeq(Survivors(batch), LAMBDA e : (site = "update") = CodeInSnapshot(e))

SyncSites == {"create", "update"}

\* C1: with a snapshot that holds code X and not code Y, and one batch that
\* holds a record of code X and a record of code Y (both of which build and
\* pass the validation gate), the finished run has issued exactly two write
\* calls: one create call whose batch is Y's entity and one update call
\* whose batch is X's entity; each is counted in 'created' / 'updated' when
\* its call returned.
C1_Scenario(i, j) ==
    /\ Len(products_data) = 2
    /\ batch_size >= 2
    /\ {i, j} = {1, 2}
    /\ Builds(products_data[i])
    /\ Builds(products_data[j])
    /\ EntityOf(products_data[i])["gtin14"] \in existing_gtins
    /\ EntityOf(products_data[j])["gtin14"] \notin existing_gtins
    /\ enable_validation => IsValid(EntityOf(products_data[i]))
                            /\ IsValid(EntityOf(products_data[j]))

C1_OneUpdateOneCreate ==
    \A i, j \in 1..2 :
        (pc = "done" /\ C1_Scenario(i, j)) =>
            /\ Len(calls) = 2
            /\ calls[1].site = "create"
            /\ calls[1].entities = <<EntityOf(products_data[j])>>
            /\ calls[2].site = "update"
            /\ calls[2].entities = <<EntityOf(products_data[i])>>
            /\ stats.created = (IF calls[1].ok THEN 1 ELSE 0)
            /\ stats.updated = (IF calls[2].ok THEN 1 ELSE 0)
            /\ stats.errors = (IF calls[1].ok THEN 0 ELSE 1) + (IF calls[2].ok THEN 0 ELSE 1)

W_C1 ==
    /\ pc = "done"
    /\ enable_reuse
    /\ \E i, j \in 1..2 : C1_Scenario(i, j)
    /\ Len(calls) = 2
    /\ calls[1].ok
    /\ calls[2].ok
    /\ stats.created = 1
    /\ stats.updated = 1

InvalidCount(entities) ==
    Cardinality({i \in 1..Len(entities) : ~IsValid(entities[i])})

\* C2: with validation enabled, the validation step of a batch adds to
\* 'errors' exactly the number of its built entities that the validator
\* reports invalid, no entity of a dispatch call is invalid, and the create
\* and update sets after the gate, and the batches of the calls, are the
\* surviving entities split by whether their normalized code is in the
\* snapshot.
C2_ValidationStep ==
    (enable_validation /\ pc = "build" /\ pc' = "create") =>
        /\ stats'.errors = stats.errors + InvalidCount(BuiltEntities(Batch))
        /\ stats'.created = stats.created
        /\ stats'.updated = stats.updated

C2_Dispatched ==
    enable_validation =>
        /\ \A k \in 1..Len(calls) :
              calls[k].site \in SyncSites =>
                 /\ \A n \in 1..Len(calls[k].entities) : IsValid(calls[k].entities[n])
                 /\ calls[k].entities =
                       ExpectedEntities(calls[k].site, Batches[calls[k].batch + 1])
        /\ pc \in {"create", "update"} =>
              /\ to_create = ExpectedEntities("create", Batch)
              /\ to_update = ExpectedEntities("update", Batch)

C2_GateDropsInvalid == []C2_Dispatched /\ [][C2_ValidationStep]_vars

W_C2 ==
    /\ enable_validation
    /\ pc = "update"
    /\ InvalidCount(BuiltEntities(Batch)) > 0
    /\ \E k \in 1..Len(calls) : calls[k].batch = batch_idx /\ calls[k].site = "create"
    /\ stats.errors > 0

\* C3: a step in which a batch dispatch call fails adds the length of that
\* call's batch to 'errors', leaves 'created' and 'updated' as they were and
\* moves on (to the update call after a create call, to the next batch after
\* an update call); no call site issues two calls for one batch.
C3_FailedStep ==
    (/\ Len(calls') = Len(calls) + 1
     /\ calls'[Len(calls')].site \in SyncSites
     /\ ~calls'[Len(calls')].ok) =>
        /\ stats'.errors = stats.errors + Len(calls'[Len(calls')].entities)
        /\ stats'.created = stats.created
        /\ stats'.updated = stats.updated
        /\ pc' = (IF calls'[Len(calls')].site = "create" THEN "update" ELSE "batches")
        /\ calls'[Len(calls')].site = "update" => batch_idx' = batch_idx + 1

C3_NoRetry ==
    \A i, j \in 1..Len(calls) :
        (i < j /\ calls[i].site \in SyncSites /\ calls[j].site \in SyncSites) =>
            ~(calls[i].site = calls[j].site /\ calls[i].batch = calls[j].batch)

C3_FailedBatchCounted == []C3_NoRetry /\ [][C3_FailedStep]_vars

W_C3 ==
    \E i, j \in 1..Len(calls) :
        /\ i < j
        /\ ~calls[i].ok
        /\ Len(calls[i].entities) > 0
        /\ calls[j].batch > calls[i].batch
        /\ stats.errors >= Len(calls[i].entities)

C5_FailingStep ==
    (/\ pc = "build"
     /\ rec_idx < Len(Batch)
     /\ rec_idx' # rec_idx
     /\ ~Builds(Batch[rec_idx + 1])) =>
        /\ stats'.errors = stats.errors + 1
        /\ to_create' = to_create
        /\ to_update' = to_update
        /\ calls' = calls
        /\ pc' = "build"
        /\ rec_idx' = rec_idx + 1

C5_BuildLoop ==
    pc = "build" =>
        LET done == WithoutFailing(SubSeq(Batch, 1, rec_idx))
            entities == [i \in 1..Len(done) |-> EntityOf(done[i])]
        IN /\ to_create = SelectSeq(entities, LAMBDA e : ~CodeInSnapshot(e))
           /\ to_update = SelectSeq(entities, CodeInSnapshot)

C5_Dispatched ==
    \A k \in 1..Len(calls) :
        calls[k].site \in SyncSites =>
            calls[k].entities =
                ExpectedEntities(calls[k].site, WithoutFailing(Batches[calls[k].batch + 1]))

C5_BuilderErrorIsolated == [](C5_BuildLoop /\ C5_Dispatched) /\ [][C5_FailingStep]_vars

W_C5 ==
    /\ pc = "update"
    /\ Len(Batch) = 2
    /\ ~Builds(Batch[1])
    /\ Builds(Batch[2])
    /\ stats.errors = 1
    /\ \E k \in 1..Len(calls) : calls[k].batch = batch_idx /\ calls[k].ok

\* every named entity of a reusable kind in the remote store is in the cache
Preloaded ==
    \A kind \in Kinds :
        \A e \in EntitiesOfType(SchemaType(kind)) :
            Truthy(e.name) =>
                /\ Has(cache[kind], e.name)
                /\ \E e2 \in EntitiesOfType(SchemaType(kind)) :
                      e2.name = e.name /\ cache[kind][e.name] = e2.iri

\* C6: with reuse enabled, the orchestrator is constructed, fetches the
\* snapshot, processes a batch or issues a write call only with the preload
\* complete; when the preload has failed no write call and no fetch has
\* been issued and no run has started.
C6_PreloadBeforeWrites ==
    /\ (enable_reuse /\ (pc \notin {"new", "preload_organizations", "preload_people",
                                    "preload_brands", "init_raised"}
                         \/ calls # <<>> \/ fetches > 0)) => Preloaded
    /\ pc = "init_raised" =>
          /\ enable_reuse
          /\ calls = <<>>
          /\ fetches = 0
          /\ stats = EmptyMap
          /\ batch_idx = 0

W_C6 ==
    /\ enable_reuse
    /\ Preloaded
    /\ Has(cache["brands"], <<"A">>)
    /\ pc = "update"
    /\ calls # <<>>

\* C7: the snapshot is fetched once, before the first batch, and no later
\* step changes it; every create call holds only codes outside the snapshot
\* and every update call only codes inside it, whatever the remote store
\* holds by then.
C7_Frozen ==
    /\ pc # "constructed" => (existing_gtins' = existing_gtins /\ fetches' = fetches)
    /\ pc = "constructed" => fetches = 0

C7_CallsFollowSnapshot ==
    /\ fetches <= 1
    /\ pc \in RunStates => fetches = 1
    /\ \A k \in 1..Len(calls) :
          calls[k].site \in SyncSites =>
             \A n \in 1..Len(calls[k].entities) :
                (calls[k].site = "update") =
                    (calls[k].entities[n]["gtin14"] \in existing_gtins)

C7_SnapshotFixed == []C7_CallsFollowSnapshot /\ [][C7_Frozen]_vars

W_C7 ==
    \E i, j \in 1..Len(calls) :
        /\ i < j
        /\ calls[i].site = "create" /\ calls[i].ok
        /\ calls[j].site = "create"
        /\ calls[j].batch > calls[i].batch
        /\ \E code \in CodesOf(calls[i].entities) \cap CodesOf(calls[j].entities) :
              code \in remote_gtins /\ code \notin existing_gtins

\* C8: the batches are consecutive slices of the input, in input order, of
\* 1..batch_size records, that together are the input; the create set and
\* the update set of the current batch are disjoint, and a built entity of
\* the batch is in the update set exactly when its code is in the snapshot.
C8_BatchesPartition ==
    /\ Flatten(Batches) = products_data
    /\ \A k \in 1..Len(Batches) : Len(Batches[k]) \in 1..batch_size
    /\ pc \in {"build", "create", "update"} => batch_idx < Len(Batches)
    /\ Range(to_create) \cap Range(to_update) = {}
    /\ \A e \in Range(to_update) : e["gtin14"] \in existing_gtins
    /\ \A e \in Range(to_create) : e["gtin14"] \notin existing_gtins
    /\ pc = "build" =>
          \A e \in Range(BuiltEntities(SubSeq(Batch, 1, rec_idx))) :
              /\ (e \in Range(to_update)) = (normalize_gtin(e["gtin14"]).val \in existing_gtins)
              /\ (e \in Range(to_create)) = (normalize_gtin(e["gtin14"]).val \notin existing_gtins)

W_C8 ==
    /\ Len(Batches) = 2
    /\ batch_idx = 1
    /\ pc = "update"
    /\ to_update # <<>>
    /\ Len(calls) > 0

(***************************************************************************)
(* Properties of the Reuse Manager                                         *)
(***************************************************************************)
Misses(tiers) == [i \in 1..Len(tiers) |-> Consulted(tiers[i], FALSE)]

\* C9: the tiers a get_or_create call consults are a prefix of cache, direct
\* check, name query, create, in that order; nothing is consulted after a
\* hit; a write call is issued only by a call whose cache lookup, direct
\* check and name query have all missed; a call that has returned has left
\* its key in the cache with the identifier it returned.
C9_Order ==
    LET t == trace[SequentialCaller]
    IN /\ Len(t) <= Len(TIERS)
       /\ \A i \in 1..Len(t) : t[i].tier = TIERS[i]
       /\ \A i \in 1..Len(t) : t[i].hit => (i = Len(t) /\ rpc[SequentialCaller] = "returned")
       /\ \A i \in 1..Len(t) : t[i].tier = "create" => SubSeq(t, 1, 3) = Misses(SubSeq(TIERS, 1, 3))
       /\ rpc[SequentialCaller] = "returned" =>
             /\ Has(cache[call[SequentialCaller].kind], call[SequentialCaller].name)
             /\ cache[call[SequentialCaller].kind][call[SequentialCaller].name]
                   = outcome[SequentialCaller]

C9_CreateStep ==
    calls' # calls =>
        /\ rpc[SequentialCaller] = "create"
        /\ trace[SequentialCaller] = Misses(SubSeq(TIERS, 1, 3))
        /\ Len(calls') = Len(calls) + 1

C9_ThreeTierLookup == []C9_Order /\ [][C9_CreateStep]_vars

W_C9 ==
    /\ rpc[SequentialCaller] = "returned"
    /\ Len(trace[SequentialCaller]) = 3
    /\ trace[SequentialCaller][3] = Consulted("query", TRUE)
    /\ call[SequentialCaller].kind = "brands"
    /\ cache["brands"][call[SequentialCaller].name] = BRAND_LEGACY.iri
    /\ calls = <<>>

\* C10: a get_or_create_brand call for a name that an earlier call has
\* returned an identifier for, with no clear_cache in between, is answered
\* by the cache lookup alone: it consults no remote tier, issues no write,
\* changes neither the cache nor the store, and returns that identifier.
C10_FromCache ==
    (call[SequentialCaller].kind = "brands" /\ call[SequentialCaller].prior # <<>>) =>
        /\ rpc[SequentialCaller] = "returned"
        /\ trace[SequentialCaller] = <<Consulted("cache", TRUE)>>
        /\ outcome[SequentialCaller] = call[SequentialCaller].prior[1]

C10_SecondCallStep ==
    (ncalls' # ncalls /\ call'[SequentialCaller].prior # <<>>) =>
        /\ calls' = calls
        /\ cache' = cache
        /\ remote_entities' = remote_entities

C10_SecondBrandCallCached == []C10_FromCache /\ [][C10_SecondCallStep]_vars

W_C10 ==
    /\ call[SequentialCaller].kind = "brands"
    /\ call[SequentialCaller].prior # <<>>
    /\ rpc[SequentialCaller] = "returned"
    /\ Len(calls) = 1
    /\ calls[1].entities[1].iri = outcome[SequentialCaller]

(***************************************************************************)
(* Properties of a shared Reuse Manager                                    *)
(***************************************************************************)
SameKey(c, d) == call[c].kind = call[d].kind /\ call[c].name = call[d].name

\* C11: two callers of one manager can both stand before the create call
\* for the same key, each after a cache miss, a direct-check miss and a
\* name-query miss, with the key still absent from the cache; the create
\* step of a caller issues its write call whatever the other caller has
\* stored meanwhile, so both callers create the key.
C11_BothPassed ==
    \A c, d \in Callers :
        (c # d /\ rpc[c] = "create" /\ rpc[d] = "create" /\ SameKey(c, d)) =>
            /\ trace[c] = Misses(SubSeq(TIERS, 1, 3))
            /\ trace[d] = Misses(SubSeq(TIERS, 1, 3))
            /\ ~Has(cache[call[c].kind], call[c].name)

C11_CreateStep ==
    \A c \in Callers :
        (rpc[c] = "create" /\ rpc'[c] # "create") =>
            /\ Len(calls') = Len(calls) + 1
            /\ calls'[Len(calls')].site = "upsert"
            /\ calls'[Len(calls')].entities[1].iri = call[c].iri

C11_CreateRace == []C11_BothPassed /\ [][C11_CreateStep]_vars

W_C11 ==
    /\ Len(calls) = 2
    /\ calls[1].ok /\ calls[2].ok
    /\ calls[1].entities = calls[2].entities
    /\ \A c \in Callers : rpc[c] = "returned" /\ Len(trace[c]) = 4
    /\ SameKey(1, 2)
    /\ outcome[1] = outcome[2]

(***************************************************************************)
(* Properties of incremental_update                                        *)
(***************************************************************************)
\* the new entity and the stored entity differ in a comparable field
DiffersFromStored(stored, new) ==
    \E i \in 1..Len(COMPARABLE_FIELDS) :
        LET f == COMPARABLE_FIELDS[i]
        IN \/ Has(new, f) /\ (~Has(stored, f) \/ stored[f] # new[f])
           \/ ~Has(new, f) /\ Has(stored, f)

\* the record the loop of incremental_update is about to handle
Record == products_data[rec_idx + 1]

\* a step of the loop that handles a record whose entity builds
HandlesBuilt ==
    /\ pc = "incremental"
    /\ rec_idx < Len(products_data)
    /\ rec_idx' = rec_idx + 1
    /\ Builds(Record)

\* C12 as stated: the step that handles a record whose entity is found
\* remotely and differs from the stored entity in a comparable field issues
\* one patch call for that record with a non-empty operation list and, when
\* the call returns, counts the record in 'updated'.
C12_PatchIssued ==
    [][(/\ HandlesBuilt
        /\ fetched' # <<>>
        /\ DiffersFromStored(StoredEntity(EntityOf(Record)["@id"]), EntityOf(Record))) =>
           /\ Len(calls') = Len(calls) + 1
           /\ calls'[Len(calls')].site = "patch"
           /\ calls'[Len(calls')].batch = rec_idx
           /\ calls'[Len(calls')].entities # <<>>
           /\ calls'[Len(calls')].ok => stats'.updated = stats.updated + 1]_vars

\* C13: the step that handles a record whose entity is not found remotely
\* adds 1 to 'errors', counts nothing else, issues no call and stays in the
\* loop; every record handled so far is counted once, and the run returns
\* only after the last record.
C13_NotFoundStep ==
    (HandlesBuilt /\ fetched' = <<>>) =>
        /\ stats'.errors = stats.errors + 1
        /\ stats'.updated = stats.updated
        /\ stats'.no_changes = stats.no_changes
        /\ calls' = calls
        /\ pc' = "incremental"

C13_AllHandled ==
    /\ pc \in {"incremental", "done_incremental"} =>
          stats.updated + stats.no_changes + stats.errors = rec_idx
    /\ pc = "done_incremental" => rec_idx = Len(products_data)

C13_NotFoundSkipped == []C13_AllHandled /\ [][C13_NotFoundStep]_vars

W_C13 ==
    /\ pc = "done_incremental"
    /\ Len(products_data) = 2
    /\ Builds(products_data[1])
    /\ Builds(products_data[2])
    /\ stats.errors = 1
    /\ stats.no_changes = 1
    /\ fetched # <<>>
    /\ calls = <<>>

\* an operation of a patch call is one the stored and the new value call for
OpCalledFor(op, stored, new) ==
    CASE op.op = "replace" -> Has(stored, op.path) /\ Has(new, op.path)
                              /\ stored[op.path] # new[op.path]
      [] op.op = "add" -> ~Has(stored, op.path) /\ Has(new, op.path)
      [] op.op = "remove" -> Has(stored, op.path) /\ ~Has(new, op.path)
      [] OTHER -> FALSE

\* C14: every operation of every patch call is for a comparable field whose
\* new value differs from the stored one (replace: stored with another
\* value, add: not stored, remove: stored and absent from the new entity);
\* the step that handles a found record with no differing comparable field
\* adds 1 to 'no_changes', leaves 'updated' as it was and issues no call.
C14_OpsOnlyForDifferences ==
    \A k \in 1..Len(calls) :
        calls[k].site = "patch" =>
            LET new == EntityOf(products_data[calls[k].batch + 1])
            IN \A n \in 1..Len(calls[k].entities) :
                  OpCalledFor(calls[k].entities[n], StoredEntity(new["@id"]), new)

C14_NoDiffStep ==
    (/\ HandlesBuilt
     /\ fetched' # <<>>
     /\ ~DiffersFromStored(StoredEntity(EntityOf(Record)["@id"]), EntityOf(Record))) =>
        /\ stats'.no_changes = stats.no_changes + 1
        /\ stats'.updated = stats.updated
        /\ stats'.errors = stats.errors
        /\ calls' = calls

C15_BrandThroughManager ==
    (enable_reuse /\ pc \in RunStates) =>
        \A e \in Range(to_create) \cup Range(to_update) :
            Has(e, "brand") =>
                /\ ncalls > 0
                /\ Has(served, e["brand"]["name"])
                /\ e["brand"]["@id"] = served[e["brand"]["name"]]

(***************************************************************************)
(* Properties of the Identifier Generator                                  *)
(***************************************************************************)
GTIN_LENGTHS == {8, 12, 13, 14}

\* the digits of a code, its separators left out
DigitsOf(code) == [i \in 1..Len(StripNonDigits(code)) |-> StripNonDigits(code)[i]]

\* GS1 mod-10: with the weights 1, 3, 1, 3, ... counted from the last digit
\* (the check digit), the weighted sum of all digits is a multiple of 10
RECURSIVE GS1Sum(_, _)
GS1Sum(d, i) ==
    IF i > Len(d) THEN 0
    ELSE d[i] * (IF (Len(d) - i) % 2 = 1 THEN 3 ELSE 1) + GS1Sum(d, i + 1)

GS1Valid(d) == GS1Sum(d, 1) % 10 = 0

\* v is d, left-padded with zeros to 14 digits
PaddedTo14(v, d) ==
    /\ Len(v) = 14
    /\ \A i \in 1..14 : v[i] = (IF i <= 14 - Len(d) THEN 0 ELSE d[i - (14 - Len(d))])

Normalized == arg.fn = "normalize_gtin" /\ result # <<>>

\* C16: for a code of 8, 12, 13 or 14 digits, normalize_gtin returns the
\* code left-padded with zeros to 14 digits, which passes
\* validate_gtin_check_digit, when the GS1 check digit of the code is
\* correct, and raises the check-digit error when it is not.
C16_CheckDigit ==
    (Normalized /\ Len(DigitsOf(arg.gtin)) \in GTIN_LENGTHS) =>
        IF GS1Valid(DigitsOf(arg.gtin))
        THEN /\ result[1].ok
             /\ PaddedTo14(result[1].val, DigitsOf(arg.gtin))
             /\ \A i \in 1..14 : result[1].val[i] \in 0..9
             /\ validate_gtin_check_digit(result[1].val)
        ELSE result[1] = Raise("InvalidCheckDigit")

W_C16 ==
    /\ Normalized
    /\ Len(arg.gtin) = 12
    /\ DigitsOf(arg.gtin) = arg.gtin
    /\ GS1Valid(arg.gtin)
    /\ result[1].ok
    /\ result[1].val[1] = 0 /\ result[1].val[2] = 0
    /\ result[1].val[14] = arg.gtin[12]

\* C17: normalize_gtin raises the length error exactly when the number of
\* digits left after the non-digit characters are removed is not 8, 12, 13
\* or 14, whatever the check digit is: such an input gives neither the
\* check-digit error nor a value.
C17_LengthFirst ==
    Normalized =>
        /\ Len(DigitsOf(arg.gtin)) \notin GTIN_LENGTHS => result[1] = Raise("InvalidLength")
        /\ Len(DigitsOf(arg.gtin)) \in GTIN_LENGTHS => result[1] # Raise("InvalidLength")
        /\ result[1].ok => \A i \in 1..Len(result[1].val) : result[1].val[i] \in 0..9

W_C17 ==
    /\ Normalized
    /\ Len(arg.gtin) = 12
    /\ Len(DigitsOf(arg.gtin)) = 11
    /\ GS1Valid(DigitsOf(arg.gtin))
    /\ result = <<Raise("InvalidLength")>>

\* the parts a serial and a lot add to a product identifier
SerialAndLot(serial, lot) ==
    (IF serial # <<>> THEN <<"21", serial>> ELSE <<>>)
    \o (IF lot # <<>> THEN <<"10", lot>> ELSE <<>>)

AdjacentHyphens(t) == \E i \in 1..(Len(t) - 1) : t[i] = "-" /\ t[i + 1] = "-"

\* C19: generate_slug returns for every text; its result is left unchanged
\* by generate_slug, holds only lowercase letters, digits and hyphens, has
\* no two adjacent hyphens and neither starts nor ends with a hyphen; the
\* empty text is a possible result.
C19_SlugIdempotent ==
    (arg.fn = "generate_slug" /\ result # <<>>) =>
        /\ generate_slug(result[1]) = result[1]
        /\ \A i \in 1..Len(result[1]) : result[1][i] \in {"a", "b", "0", "1", "-"}
        /\ ~AdjacentHyphens(result[1])
        /\ result[1] # <<>> => (result[1][1] # "-" /\ result[1][Len(result[1])] # "-")
        /\ Len(result[1]) <= Len(arg.text)

W_C19 ==
    /\ arg.fn = "generate_slug"
    /\ arg.text = <<"A", "!", "_">>
    /\ result = <<<<"a">>>>

(***************************************************************************)
(* Properties of the Structural Validator                                  *)
(***************************************************************************)
Validated == arg.fn = "validate" /\ result # <<>>

\* C20: in non-strict mode, for an entity of a type of the rule table,
\* every required field of the type that the entity lacks is named by a
\* missing-required-field error of the result, and the result is invalid
\* when there is such a field; a Product with a context, an identifier and
\* a name and no gtin14 is invalid with the error naming gtin14.
C20_MissingRequired ==
    (Validated /\ ~arg.strict /\ arg.entity["@type"] \in SHAPE_TYPES) =>
        \A i \in 1..Len(Required(arg.entity["@type"])) :
            LET f == Required(arg.entity["@type"])[i]
            IN ~Has(arg.entity, f) =>
                  /\ ~result[1].valid
                  /\ Err("MissingRequired", f, "") \in Range(result[1].errors)

W_C20 ==
    /\ Validated
    /\ ~arg.strict
    /\ arg.entity["@type"] = "Product"
    /\ DOMAIN arg.entity = {"@context", "@type", "@id", "name"}
    /\ ~result[1].valid
    /\ result[1].errors = <<Err("MissingRequired", "gtin14", "")>>

RecognizedContext(entity) ==
    Has(entity, "@context")
    /\ entity["@context"] \in {"https://schema.org", "http://schema.org"}

UnknownTyped == Validated /\ arg.entity["@type"] \notin SHAPE_TYPES

\* C21 as stated: every entity whose type tag is present and not in the
\* rule table is reported valid, with an unknown-type warning, in both modes.
C21_UnknownTypeValid ==
    UnknownTyped =>
        /\ result[1].valid
        /\ Err("UnknownType", arg.entity["@type"], "") \in Range(result[1].warnings)

\* C21: for an entity whose type tag is present and not in the rule table,
\* in both modes, the only warning is the unknown-type warning, the only
\* errors are those of the context check, and the result is valid exactly
\* when the context tag is present and a recognized schema namespace.
C21_UnknownTypeWarned ==
    UnknownTyped =>
        /\ result[1].warnings = <<Err("UnknownType", arg.entity["@type"], "")>>
        /\ result[1].valid <=> RecognizedContext(arg.entity)
        /\ \A i \in 1..Len(result[1].errors) : result[1].errors[i].field = "@context"

W_C21 ==
    /\ UnknownTyped
    /\ arg.strict
    /\ ~Has(arg.entity, "@context")
    /\ ~result[1].valid
    /\ result[1].warnings = <<Err("UnknownType", UNKNOWN_TYPE, "")>>

(***************************************************************************)
(* Properties of the Entity Builder                                        *)
(***************************************************************************)
ProductBuilt == arg.fn = "build_product" /\ result # <<>> /\ result[1].ok

\* the offer dictionary build_product hands to _build_offer
OfferInput(data) ==
    IF Has(data, "offers") THEN data["offers"]
    ELSE [x \in {"availability"} |->
            IF Has(data, "availability") THEN data["availability"]
            ELSE DEFAULT_AVAILABILITY]

OfferWithAvailability ==
    /\ ProductBuilt
    /\ Has(result[1].val, "offers")
    /\ Has(result[1].val["offers"], "availability")

FOUR_URIS == {<<SCHEMA_PREFIX, t>> : t \in AVAILABILITY_MAP}

RECURSIVE WithoutExtension(_)
WithoutExtension(text) ==
    IF "." \notin Range(text) THEN text
    ELSE IF text[Len(text)] = "." THEN SubSeq(text, 1, Len(text) - 1)
    ELSE WithoutExtension(SubSeq(text, 1, Len(text) - 1))

\* the slug source of a record by the stated priority
SlugSource(data) ==
    LET path == StripSlashes(Tail(data["url"]))
    IN IF Has(data, "slug") THEN data["slug"]
       ELSE IF Has(data, "name") THEN data["name"]
       ELSE IF Has(data, "headline") THEN data["headline"]
       ELSE IF path # <<>> THEN WithoutExtension(path[Len(path)])
       ELSE HOMEPAGE

\* C23: build_webpage fails with the missing-url error when the record has
\* no url, and otherwise the identifier's slug is the slug of the first
\* present source among explicit slug, name, headline, the last non-empty
\* URL path segment with its extension stripped, and "homepage".
C23_SlugPriority ==
    (arg.fn = "build_webpage" /\ result # <<>>) =>
        IF ~Has(arg.data, "url") THEN result[1] = Raise("MissingUrl")
        ELSE /\ result[1].ok
             /\ result[1].val["@id"]
                  = <<DATASET_URI, "webpage", generate_slug(SlugSource(arg.data))>>

Created == arg.fn = "create_product_from_scraped_data" /\ result # <<>>

\* whether a synonym counts as available in a record
KeyPresent(data, f) == Has(data, f)
KeyFilled(data, f) == Has(data, f) /\ Truthy(data[f])

\* index of the first available synonym of a candidate list, 0 when none
FirstAvailable(data, fields, Available(_, _)) ==
    IF \E i \in 1..Len(fields) : Available(data, fields[i])
    THEN CHOOSE i \in 1..Len(fields) :
            Available(data, fields[i]) /\ \A j \in 1..(i - 1) : ~Available(data, fields[j])
    ELSE 0

\* the canonical record whose trade code and target fields are the values
\* of the first available synonyms
Canonical(data, Available(_, _)) ==
    LET g == FirstAvailable(data, GTIN_FIELDS, Available)
        idx(i) == FirstAvailable(data, FIELD_MAPPINGS[i][2], Available)
        mapped == {i \in 1..Len(FIELD_MAPPINGS) : idx(i) # 0}
        of(t) == CHOOSE i \in mapped : FIELD_MAPPINGS[i][1] = t
    IN [t \in {"gtin"} \cup {FIELD_MAPPINGS[i][1] : i \in mapped} |->
          IF t = "gtin" THEN data[GTIN_FIELDS[g]]
          ELSE data[FIELD_MAPPINGS[of(t)][2][idx(of(t))]]]

Follows(Available(_, _)) ==
    Created =>
        IF FirstAvailable(arg.scraped_data, GTIN_FIELDS, Available) = 0
        THEN result[1] = Raise("NoGtinFound")
        ELSE /\ result[1] # Raise("NoGtinFound")
             /\ result[1] = build_product(DATASET_URI,
                                          Canonical(arg.scraped_data, Available))

\* C24 as stated: the trade code and every target field take the value of
\* the first synonym, in candidate order, whose key is in the raw record,
\* and the call fails with the no-trade-code error exactly when no
\* trade-code synonym is a key of the record.
C24_FirstPresentSynonym == Follows(KeyPresent)

\* C24: the trade code and every target field take the value of the first
\* synonym, in candidate order, that the raw record holds with a non-empty
\* value, and the call fails with the no-trade-code error exactly when no
\* trade-code synonym holds a non-empty value.
C24_FirstFilledSynonym == Follows(KeyFilled)

W_C24 ==
    /\ Created
    /\ DOMAIN arg.scraped_data = ScrapedKeys
    /\ arg.scraped_data["gtin"] = <<>>
    /\ arg.scraped_data["ean"] = CODE_Y
    /\ arg.scraped_data["upc"] = CODE_X
    /\ arg.scraped_data["name"] = <<"a">>
    /\ arg.scraped_data["title"] = <<"b">>
    /\ result[1].ok
    /\ result[1].val["gtin14"] = Y14
    /\ result[1].val["name"] = <<"a">>

\* the dry run's 'valid product': a checksum-valid trade code, a name, a
\* price, a currency, a string brand and an availability token of the table
DryRunProduct(data) ==
    /\ DOMAIN data = {"gtin", "name", "price", "currency", "brand", "availability"}
    /\ normalize_gtin(data["gtin"]).ok
    /\ data["name"] # <<>>
    /\ data["availability"][1] = ""
    /\ data["availability"][2] \in AVAILABILITY_MAP

\* C25: a Product built by build_product from a record like the dry run's
\* valid product is reported valid by validate in non-strict mode.
C25_BuiltProductValid ==
    (arg.fn = "build_product" /\ Len(result) = 2 /\ ~result[2].strict
       /\ DryRunProduct(arg.data))
        => result[2].report.valid

(***************************************************************************)
(* Properties of the counts and of the dispatch of a whole run             *)
(***************************************************************************)
SyncCalls == {k \in 1..Len(calls) : calls[k].site \in SyncSites}

\* C26: in a sync run, every write call holds, in input order, exactly the
\* entities of its batch that built and passed the gate and belong to its
\* site, and is not empty; no batch has two calls from one site; and once a
\* batch is finished, each site with such entities has issued its call: no
\* surviving entity is lost and none is sent twice.
C26_EachSurvivorOnce ==
    /\ \A k \in SyncCalls :
          /\ calls[k].entities # <<>>
          /\ calls[k].entities
               = ExpectedEntities(calls[k].site, Batches[calls[k].batch + 1])
    /\ \A i, j \in SyncCalls :
          (calls[i].site = calls[j].site /\ calls[i].batch = calls[j].batch) => i = j
    /\ pc \in RunStates =>
          \A b \in 1..batch_idx : \A site \in SyncSites :
              ExpectedEntities(site, Batches[b]) # <<>> =>
                  \E k \in SyncCalls : calls[k].site = site /\ calls[k].batch = b - 1

W_C26 ==
    /\ pc = "done"
    /\ enable_validation
    /\ batch_size = 1
    /\ products_data = <<REC_X, REC_X_NO_NAME>>
    /\ Cardinality(SyncCalls) = 1
    /\ \E k \in SyncCalls : calls[k].batch = 0 /\ Len(calls[k].entities) = 1

\* the number of records of the batches finished so far
Processed == Min(batch_idx * batch_size, Len(products_data))

\* C27: when sync_products returns, total is the number of input records,
\* skipped is 0 and total = created + updated + errors + skipped; between
\* two batches, created + updated + errors is the number of records of the
\* batches finished so far.
C27_CountsAddUp ==
    /\ pc \in {"batches", "done"} =>
          /\ stats.created + stats.updated + stats.errors = Processed
          /\ stats.total = Len(products_data)
          /\ stats.skipped = 0
    /\ pc = "done" =>
          stats.total = stats.created + stats.updated + stats.errors + stats.skipped

W_C27 ==
    /\ pc = "done"
    /\ batch_size = 1
    /\ enable_validation
    /\ Len(products_data) = 2
    /\ stats.errors = 1
    /\ stats.created + stats.updated = 1
    /\ \E k \in SyncCalls : ~calls[k].ok

\* C28: during incremental_update, updated + no_changes + errors is the
\* number of records handled so far, and when it returns
\* total = updated + no_changes + errors with total the number of input
\* records: every record is counted in exactly one of the three counters.
C28_IncrementalCountsAddUp ==
    /\ pc \in {"incremental", "done_incremental"} =>
          /\ stats.updated + stats.no_changes + stats.errors = rec_idx
          /\ stats.total = Len(products_data)
    /\ pc = "done_incremental" =>
          stats.total = stats.updated + stats.no_changes + stats.errors

W_C28 ==
    /\ pc = "done_incremental"
    /\ Len(products_data) = 2
    /\ ~Builds(products_data[1])
    /\ Builds(products_data[2])
    /\ stats.errors = 2
    /\ fetched = <<>>

(***************************************************************************)
(* Frame of the Reuse Manager's cache                                      *)
(***************************************************************************)
\* the step is clear_cache
Clears == cache # EmptyCache /\ cache' = EmptyCache

\* caller c's get_or_create call ends in an error in this step
EndsInError(c) == rpc'[c] = "raised" /\ (rpc[c] # "raised" \/ ncalls' # ncalls)

\* caller c's call returns in this step after a remote lookup or a create call
ReturnsFromRemote(c) == rpc[c] \in {"direct", "query", "create"} /\ rpc'[c] = "returned"

\* a step of a get_or_create call that ends in an error leaves the cache as
\* it was; a step that changes the cache is the return of one call, adds
\* exactly that call's natural key to the cache of that call's kind with the
\* identifier it returns, leaves the caches of the other kinds as they were,
\* and the identifier is that of an entity the remote store holds (found
\* there, or written by the create call that has just succeeded)
C29_Step ==
    /\ \A c \in Callers : EndsInError(c) => cache' = cache
    /\ (cache' # cache /\ ~Clears) =>
          \E c \in Callers :
              /\ ReturnsFromRemote(c)
              /\ cache' = [cache EXCEPT ![call[c].kind] = Put(@, call[c].name, outcome'[c])]
              /\ \A kind \in Kinds \ {call[c].kind} : cache'[kind] = cache[kind]
              /\ \E e \in remote_entities' : e.iri = outcome'[c]
              /\ (rpc[c] = "create") =>
                    /\ calls' # calls
                    /\ calls'[Len(calls')].ok

\* C29: a get_or_create call that ends in an error leaves the whole cache
\* unchanged; a natural key enters a kind's cache only when the entity was
\* found remotely or its create call succeeded; an operation on one kind
\* never changes the cache of another kind.
C29_CacheFrame == [][C29_Step]_vars

W_C29 ==
    \E c \in Callers :
        /\ rpc[c] = "raised"
        /\ trace[c] # <<>>
        /\ trace[c][Len(trace[c])].tier = "create"
        /\ ~Has(cache[call[c].kind], call[c].name)
        /\ \E kind \in Kinds \ {call[c].kind} : cache[kind] # EmptyMap

(***************************************************************************)
(* Termination of sync_products                                            *)
(***************************************************************************)
\* the batch index moves only forward, by one, at the end of a batch
C30_BatchStep == batch_idx' = batch_idx \/ (pc = "update" /\ batch_idx' = batch_idx + 1)

\* the write calls follow the order of the batches, each site calls at most
\* once per batch, and the run returns after the last batch
C30_OncePerBatch ==
    /\ \A i, j \in SyncCalls : i < j => calls[i].batch <= calls[j].batch
    /\ \A b \in 0..Len(Batches) : \A site \in SyncSites :
          Cardinality({k \in SyncCalls : calls[k].site = site /\ calls[k].batch = b}) <= 1
    /\ \A k \in SyncCalls : calls[k].batch < Len(Batches)
    /\ pc = "done" => batch_idx = Len(Batches)

====
